---- MODULE Spec2Model ----
(***************************************************************************)
(* A model of the duckai gateway: the cross-process sliding-window rate    *)
(* limiter of DuckAI (src/src/duckai.ts) over the shared file store        *)
(* (src/src/rate-limit-store.ts), and the upstream body extraction and     *)
(* stream translation of DuckAI.chat / DuckAI.chatStream and               *)
(* OpenAIService.createChatCompletionStream (src/unnamed/part_001).        *)
(*                                                                         *)
(* Time is in milliseconds, as returned by Date.now().  Every gateway      *)
(* process runs on the same machine and reads the same clock `now`.        *)
(***************************************************************************)
EXTENDS Integers, Sequences, FiniteSets, TLC

VARIABLES
    now,        \* Date.now()
    store,      \* the shared file: <<>> (no file) or <<record>>
    info,       \* info[p]: DuckAI.rateLimitInfo of process p
    pc,         \* pc[p]: where process p's current request stands
    mode,       \* mode[p]: "chat" or "stream", the entry point of the request
    wakeAt,     \* wakeAt[p]: when the setTimeout of waitIfNeeded fires
    lastWait,   \* lastWait[p]: what shouldWaitBeforeRequest last returned, and on what
    trace,      \* trace[p]: the steps the current request has taken, in order
    posts,      \* every upstream chat POST issued so far, in order:
                \* <<request slot, time, the handshake its credential came from>>
    gets,       \* gets[p]: number of handshake GETs request slot p has made so far
    vqdResponse,\* vqdResponse[p]: <<>>, or <<what the status endpoint answered>>
    response,   \* response[p]: <<>>, or <<what the chat endpoint answered>>
    outcome,    \* outcome[p]: how the last request of p ended
    started,    \* number of requests received so far (bounds the run)
    body,       \* the body the chat endpoint sends: its lines, in order
    cuts,       \* cuts[i]: where the network reads end with respect to line i
    reads,      \* the network reads chatStream() has not seen yet
    chatOut,    \* <<>>, or <<what chat() returned for the body>>
    duckQ,      \* what chatStream() has enqueued and the translator has not read
    duckClosed, \* chatStream()'s stream is closed
    isFirst,    \* createChatCompletionStream(): no chunk has been sent yet
    out,        \* what createChatCompletionStream() has enqueued, in order
    outClosed,  \* the translated stream is closed
    duckErrored,\* chatStream()'s stream is errored: a network read was rejected
    cancelled,  \* the consumer of the translated stream has cancelled it
    rejected,   \* the pump of createChatCompletionStream() ended by an exception
    id,         \* createChatCompletionStream(): generateId()
    created,    \* createChatCompletionStream(): getCurrentTimestamp()
    model,      \* request.model
    owner,      \* owner[p]: the gateway process (DuckAI instance) request slot p runs in
    current,    \* current[p]: <<>>, or <<what read() gave update()>> of slot p
    tools,      \* validateTools(): the tool list
    validation, \* <<>>, or <<what validateTools(tools) returned>>
    content,    \* extractFunctionCalls(): the reply of the model
    extracted,  \* <<>>, or <<what extractFunctionCalls(content) returned>>
    reextracted,\* <<>>, or <<what it returned for the result put back as JSON>>
    request,    \* the body of an inbound chat completion request
    accepted,   \* <<>>, or <<what validateRequest(request) returned or threw>>
    usage       \* <<>>, or <<the usage of the completion createChatCompletion() returned>>

\* The limiter and the requests of the gateway processes
lvars == <<now, store, info, pc, mode, wakeAt, lastWait, trace, posts, gets, vqdResponse,
          response, outcome, started>>

\* The handling of one 2xx response body
svars == <<body, cuts, reads, chatOut, duckQ, duckClosed, isFirst, out, outClosed,
          duckErrored, cancelled, rejected, id, created, model>>

\* Which process a request slot runs in, and RateLimitStore.update()
uvars == <<owner, current>>

\* ToolService
tvars == <<tools, validation, content, extracted, reextracted>>

\* OpenAIService: request validation and usage accounting
ovars == <<request, accepted, usage>>

vars == <<lvars, svars, uvars, tvars, ovars>>

----------------------------------------------------------------------------
(* Program constants *)

MAX_REQUESTS_PER_MINUTE == 20

WINDOW_SIZE_MS == 60000

MIN_REQUEST_INTERVAL_MS == 1000

WAIT_BUFFER_MS == 100

STALE_AFTER_MS == 300000

DEFAULT_RETRY_MS == 60000

(* Bounds of the model *)

StartTime == 1000000

Horizon == 1000

MaxRequests == 2

MaxStamps == 3

MaxUpdates == 3

MaxTools == 2

MaxCalls == 2

MaxMessages == 2

PriorCount == 19

PriorOldestAge == 59400

PriorGap == 3000

\* The instants after StartTime at which the model looks at the system, besides
\* the instants timers are due: within the minimum interval, at it, and once
\* the store has gone stale.
ClockOffsets == {500, 300001}

Procs == {"p1", "p2"}

\* The identity of a gateway process that ran earlier and has exited.
PriorProc == "prior"

----------------------------------------------------------------------------
(* Helpers *)

Max(a, b) == IF a >= b THEN a ELSE b

Range(s) == {s[i] : i \in 1..Len(s)}

Last(s) == s[Len(s)]

\* rateLimitInfo as the class initialises it
EmptyInfo ==
    [requestTimestamps |-> <<>>, lastRequestTime |-> 0,
     isLimited |-> FALSE, retryAfter |-> <<>>]

----------------------------------------------------------------------------
(* RateLimitStore *)

\* read() that returns whatever parses, however old.
StoreRead_NoStale(st, t) ==
    IF st = <<>> THEN <<>>
    ELSE IF st[1].fmt = "corrupt" THEN <<>>
    ELSE st

\* read(): null (<<>>) when the file is missing or empty, does not parse, or
\* was last updated more than 5 minutes ago; the parsed record otherwise.
StoreRead(st, t) ==
    IF st = <<>> THEN <<>>
    ELSE IF st[1].fmt = "corrupt" THEN <<>>
    ELSE IF t - st[1].lastUpdated > STALE_AFTER_MS THEN <<>>
    ELSE st

\* write(data): the data with the writer's identity and the time of writing.
StoreWrite(inf, p, t) ==
    << [fmt |-> "sliding",
        requestTimestamps |-> inf.requestTimestamps,
        lastRequestTime |-> inf.lastRequestTime,
        isLimited |-> inf.isLimited,
        retryAfter |-> inf.retryAfter,
        processId |-> p,
        lastUpdated |-> t] >>

\* clear(): the file is unlinked.
StoreClear == <<>>

----------------------------------------------------------------------------
(* DuckAI: the limiter *)

\* Pruning that keeps a timestamp as old as the window is long.
cleanOldTimestamps_Inclusive(ts, t) ==
    SelectSeq(ts, LAMBDA x : x >= t - WINDOW_SIZE_MS)

\* cleanOldTimestamps(): filter(timestamp => timestamp > cutoff), the cutoff
\* being now - WINDOW_SIZE_MS.
cleanOldTimestamps(ts, t) ==
    SelectSeq(ts, LAMBDA x : x > t - WINDOW_SIZE_MS)

\* loadRateLimitFromStore(): memory is replaced only when read() gives a
\* record; an old-format record (requestCount/windowStart) starts a fresh
\* window.  The loaded window is pruned.
loadRateLimitFromStore(inf, st, t) ==
    LET stored == StoreRead(st, t) IN
    IF stored = <<>> THEN inf
    ELSE LET s == stored[1]
             loaded == [requestTimestamps |->
                            IF s.fmt = "fixed" THEN <<>> ELSE s.requestTimestamps,
                        lastRequestTime |-> s.lastRequestTime,
                        isLimited |-> s.isLimited,
                        retryAfter |-> s.retryAfter]
         IN [loaded EXCEPT !.requestTimestamps = cleanOldTimestamps(@, t)]

\* WaitDecision with the operands of the spacing wait swapped.
WaitDecision_SpacingSwapped(inf, t) ==
    LET ts == inf.requestTimestamps
        timeSinceLastRequest == t - inf.lastRequestTime
    IN IF Len(ts) >= MAX_REQUESTS_PER_MINUTE /\ ts[1] # 0
       THEN [shouldWait |-> TRUE,
             waitTime |-> Max(0, ts[1] + WINDOW_SIZE_MS - t + WAIT_BUFFER_MS)]
       ELSE IF timeSinceLastRequest < MIN_REQUEST_INTERVAL_MS
       THEN [shouldWait |-> TRUE,
             waitTime |-> timeSinceLastRequest - MIN_REQUEST_INTERVAL_MS]
       ELSE [shouldWait |-> FALSE, waitTime |-> 0]

\* WaitDecision without the 100 ms buffer of the window wait.
WaitDecision_NoBuffer(inf, t) ==
    LET ts == inf.requestTimestamps
        timeSinceLastRequest == t - inf.lastRequestTime
    IN IF Len(ts) >= MAX_REQUESTS_PER_MINUTE /\ ts[1] # 0
       THEN [shouldWait |-> TRUE,
             waitTime |-> Max(0, ts[1] + WINDOW_SIZE_MS - t)]
       ELSE IF timeSinceLastRequest < MIN_REQUEST_INTERVAL_MS
       THEN [shouldWait |-> TRUE,
             waitTime |-> MIN_REQUEST_INTERVAL_MS - timeSinceLastRequest]
       ELSE [shouldWait |-> FALSE, waitTime |-> 0]

\* WaitDecision without the window check: only the spacing is enforced.
WaitDecision_NoCap(inf, t) ==
    LET timeSinceLastRequest == t - inf.lastRequestTime
    IN IF timeSinceLastRequest < MIN_REQUEST_INTERVAL_MS
       THEN [shouldWait |-> TRUE,
             waitTime |-> MIN_REQUEST_INTERVAL_MS - timeSinceLastRequest]
       ELSE [shouldWait |-> FALSE, waitTime |-> 0]

\* The decision of shouldWaitBeforeRequest() on the loaded and pruned memory.
WaitDecision(inf, t) ==
    LET ts == inf.requestTimestamps
        timeSinceLastRequest == t - inf.lastRequestTime
    IN IF Len(ts) >= MAX_REQUESTS_PER_MINUTE /\ ts[1] # 0
       THEN [shouldWait |-> TRUE,
             waitTime |-> Max(0, ts[1] + WINDOW_SIZE_MS - t + WAIT_BUFFER_MS)]
       ELSE IF timeSinceLastRequest < MIN_REQUEST_INTERVAL_MS
       THEN [shouldWait |-> TRUE,
             waitTime |-> MIN_REQUEST_INTERVAL_MS - timeSinceLastRequest]
       ELSE [shouldWait |-> FALSE, waitTime |-> 0]

\* The memory shouldWaitBeforeRequest() leaves behind: loaded from the store,
\* then pruned by getCurrentRequestCount().
AdmitInfo(inf, st, t) ==
    LET l == loadRateLimitFromStore(inf, st, t)
    IN [l EXCEPT !.requestTimestamps = cleanOldTimestamps(@, t)]

shouldWaitBeforeRequest(inf, st, t) == WaitDecision(AdmitInfo(inf, st, t), t)

\* RecordInfo that pushes the timestamp and forgets lastRequestTime.
RecordInfo_NoLast(inf, t) ==
    [inf EXCEPT !.requestTimestamps = cleanOldTimestamps(Append(@, t), t)]

\* RecordInfo whose save does not prune.
RecordInfo_NoPrune(inf, t) ==
    [inf EXCEPT !.requestTimestamps = Append(@, t),
                !.lastRequestTime = t]

\* RecordInfo that starts the window over with the new timestamp.
RecordInfo_OnlyLatest(inf, t) ==
    [inf EXCEPT !.requestTimestamps = <<t>>,
                !.lastRequestTime = t]

\* RecordInfo that puts the new timestamp in front.
RecordInfo_Unshift(inf, t) ==
    [inf EXCEPT !.requestTimestamps = cleanOldTimestamps(<<t>> \o @, t),
                !.lastRequestTime = t]

\* The memory after "Update rate limit tracking BEFORE making the request":
\* push(now), lastRequestTime = now, and the prune of saveRateLimitToStore().
RecordInfo(inf, t) ==
    [inf EXCEPT !.requestTimestamps = cleanOldTimestamps(Append(@, t), t),
                !.lastRequestTime = t]

----------------------------------------------------------------------------
(* DuckAI: session negotiation (getVQD and the check of the decoded hash) *)

\* What the status endpoint may answer.  `hash` says whether x-vqd-hash-1 is
\* there, whether atob() takes it, and whether the decoded text evaluates to
\* an object; `client` and `server` say what that object holds under
\* client_hashes and server_hashes.
HandshakeResponses ==
    { [ok |-> TRUE,  vqd |-> TRUE,  hash |-> "ok",        client |-> "array",   server |-> "array"],
      [ok |-> FALSE, vqd |-> TRUE,  hash |-> "ok",        client |-> "array",   server |-> "array"],
      [ok |-> TRUE,  vqd |-> FALSE, hash |-> "ok",        client |-> "array",   server |-> "array"],
      [ok |-> TRUE,  vqd |-> TRUE,  hash |-> "absent",    client |-> "array",   server |-> "array"],
      [ok |-> TRUE,  vqd |-> TRUE,  hash |-> "badbase64", client |-> "array",   server |-> "array"],
      [ok |-> TRUE,  vqd |-> TRUE,  hash |-> "ok",        client |-> "missing", server |-> "array"],
      [ok |-> TRUE,  vqd |-> TRUE,  hash |-> "ok",        client |-> "string",  server |-> "array"],
      [ok |-> TRUE,  vqd |-> TRUE,  hash |-> "ok",        client |-> "array",   server |-> "missing"],
      [ok |-> TRUE,  vqd |-> TRUE,  hash |-> "notobject", client |-> "missing", server |-> "missing"] }

\* getVQD(): "ok" or the error it throws.
getVQD(resp) ==
    IF ~resp.ok THEN "vqd_status"
    ELSE IF ~resp.vqd \/ resp.hash = "absent" THEN "missing_headers"
    ELSE IF resp.hash = "badbase64" THEN "undecodable"
    ELSE "ok"

\* Negotiate that asks nothing of the decoded challenge.
Negotiate_NoStructureCheck(resp) ==
    IF getVQD(resp) # "ok" THEN getVQD(resp)
    ELSE "ok"

\* getVQD() followed by the structure check of chat()/chatStream():
\* !hash || !hash.client_hashes || !Array.isArray(hash.client_hashes).
Negotiate(resp) ==
    IF getVQD(resp) # "ok" THEN getVQD(resp)
    ELSE IF resp.hash = "notobject" \/ resp.client # "array" THEN "invalid_hash_structure"
    ELSE "ok"

----------------------------------------------------------------------------
(* DuckAI: the answer of the chat endpoint *)

\* What the chat endpoint may answer: the status, and the retry-after header
\* (<<>>: absent; <<n>>: n seconds).
UpstreamResponses ==
    { [status |-> 200, retryAfter |-> <<>>],
      [status |-> 429, retryAfter |-> <<>>],
      [status |-> 429, retryAfter |-> <<2>>],
      [status |-> 429, retryAfter |-> <<0>>],
      [status |-> 500, retryAfter |-> <<>>],
      [status |-> 503, retryAfter |-> <<2>>] }

\* What chat()/chatStream() gives its caller: how the call ended, and the
\* status and the wait the thrown Error names.
Outcome(how, status, waitTime) == [how |-> how, status |-> status, waitTime |-> waitTime]

\* retryWaitTime without the conversion to milliseconds.
retryWaitTime_Seconds(h) == IF h # <<>> THEN h[1] ELSE DEFAULT_RETRY_MS

\* retryAfter ? parseInt(retryAfter) * 1000 : 60000
retryWaitTime(h) == IF h # <<>> THEN h[1] * 1000 ELSE DEFAULT_RETRY_MS

\* The status handling: 429 first, then !response.ok.
UpstreamOutcome(resp) ==
    IF resp.status = 429
    THEN Outcome("rate_limited", resp.status, retryWaitTime(resp.retryAfter))
    ELSE IF resp.status \notin 200..299
    THEN Outcome("api_error", resp.status, 0)
    ELSE Outcome("ok", resp.status, 0)

----------------------------------------------------------------------------
(* Initial states *)

\* The file a previous gateway process left behind: n requests, the oldest
\* `age` ms before t, `gap` ms apart, saved with the last of them.
PriorRun(n, age, gap, t) ==
    LET ts == [i \in 1..n |-> t - age + (i - 1) * gap] IN
    << [fmt |-> "sliding", requestTimestamps |-> ts,
        lastRequestTime |-> ts[n], isLimited |-> FALSE, retryAfter |-> <<>>,
        processId |-> PriorProc, lastUpdated |-> ts[n]] >>

\* A file of the old fixed-window format, and a file that does not parse.
LegacyFile(kind, t) ==
    << [fmt |-> kind, requestTimestamps |-> <<>>,
        lastRequestTime |-> t - MIN_REQUEST_INTERVAL_MS, isLimited |-> FALSE,
        retryAfter |-> <<>>, processId |-> PriorProc,
        lastUpdated |-> t - MIN_REQUEST_INTERVAL_MS] >>

InitStores ==
    { <<>>,
      PriorRun(PriorCount, PriorOldestAge, PriorGap, StartTime),
      PriorRun(MAX_REQUESTS_PER_MINUTE, PriorOldestAge, PriorGap, StartTime),
      PriorRun(1, STALE_AFTER_MS + 1, PriorGap, StartTime),
      LegacyFile("fixed", StartTime),
      LegacyFile("corrupt", StartTime) }

NoWait == [waitTime |-> 0, shouldWait |-> FALSE, count |-> 0, head |-> 0, since |-> 0, at |-> 0]

\* No response body is being handled.
NoStream ==
    /\ body = <<>>
    /\ cuts = <<>>
    /\ reads = <<>>
    /\ chatOut = <<>>
    /\ duckQ = <<>>
    /\ duckClosed = FALSE
    /\ isFirst = TRUE
    /\ out = <<>>
    /\ outClosed = FALSE
    /\ duckErrored = FALSE
    /\ cancelled = FALSE
    /\ rejected = FALSE
    /\ id = "none"
    /\ created = 0
    /\ model = "none"

\* No update() is under way.
NoUpdate == current = [p \in Procs |-> <<>>]

\* ToolService is not in use.
NoTools ==
    /\ tools = <<>>
    /\ validation = <<>>
    /\ content = <<>>
    /\ extracted = <<>>
    /\ reextracted = <<>>

\* No inbound request is being validated or answered.
NoService ==
    /\ request = <<>>
    /\ accepted = <<>>
    /\ usage = <<>>

\* Every request slot is a gateway process of its own.
OwnProcess == [p \in Procs |-> p]

\* No request has been made yet.  The chat POSTs so far are those the file
\* tells of.
NoRequests ==
    /\ pc = [p \in Procs |-> "idle"]
    /\ mode = [p \in Procs |-> "none"]
    /\ wakeAt = [p \in Procs |-> 0]
    /\ lastWait = [p \in Procs |-> NoWait]
    /\ trace = [p \in Procs |-> <<>>]
    /\ posts = IF store = <<>> THEN <<>>
               ELSE [i \in 1..Len(store[1].requestTimestamps) |->
                        <<PriorProc, store[1].requestTimestamps[i], <<PriorProc, 0>>>>]
    /\ gets = [p \in Procs |-> 0]
    /\ vqdResponse = [p \in Procs |-> <<>>]
    /\ response = [p \in Procs |-> <<>>]
    /\ outcome = [p \in Procs |-> Outcome("none", 0, 0)]
    /\ started = 0

\* The gateway starts at StartTime on the store file st, its request slots
\* running in the processes own.
InitLimiter(st, own) ==
    /\ NoStream
    /\ NoUpdate
    /\ NoTools
    /\ NoService
    /\ now = StartTime
    /\ store = st
    /\ owner = own
    /\ NoRequests
    \* the constructor loads the store
    /\ info = [p \in Procs |-> loadRateLimitFromStore(EmptyInfo, store, now)]

Init == \E st \in InitStores : InitLimiter(st, OwnProcess)

----------------------------------------------------------------------------
(* One request of process p: chat() or chatStream() up to the response *)

\* waitIfNeeded(): shouldWaitBeforeRequest(), then the setTimeout if told to wait.
Admit(p, m) ==
    /\ pc[p] = "idle"
    /\ started < MaxRequests
    /\ LET mem == AdmitInfo(info[owner[p]], store, now)
           r == WaitDecision(mem, now)
       IN /\ info' = [info EXCEPT ![owner[p]] = mem]
          /\ lastWait' = [lastWait EXCEPT ![p] =
                 [waitTime |-> r.waitTime, shouldWait |-> r.shouldWait,
                  count |-> Len(mem.requestTimestamps),
                  head |-> IF mem.requestTimestamps = <<>> THEN 0
                           ELSE mem.requestTimestamps[1],
                  since |-> now - mem.lastRequestTime,
                  at |-> now]]
          /\ pc' = [pc EXCEPT ![p] = IF r.shouldWait THEN "sleeping" ELSE "negotiate"]
          /\ wakeAt' = [wakeAt EXCEPT ![p] = IF r.shouldWait THEN now + r.waitTime ELSE 0]
    /\ mode' = [mode EXCEPT ![p] = m]
    /\ trace' = [trace EXCEPT ![p] = <<"admit">>]
    /\ outcome' = [outcome EXCEPT ![p] = Outcome("pending", 0, 0)]
    /\ started' = started + 1
    /\ UNCHANGED <<now, store, posts, gets, vqdResponse, response, svars, uvars, tvars, ovars>>

\* The timer of waitIfNeeded() fires, no earlier than asked.
\* A timer callback that evaluates shouldWaitBeforeRequest() again and
\* sleeps again when told to.
Wake_Rechecks(p) ==
    /\ pc[p] = "sleeping"
    /\ now >= wakeAt[p]
    /\ LET mem == AdmitInfo(info[owner[p]], store, now)
           r == WaitDecision(mem, now)
       IN /\ info' = [info EXCEPT ![owner[p]] = mem]
          /\ pc' = [pc EXCEPT ![p] = IF r.shouldWait THEN "sleeping" ELSE "negotiate"]
          /\ wakeAt' = [wakeAt EXCEPT ![p] = IF r.shouldWait THEN now + r.waitTime ELSE 0]
    /\ trace' = [trace EXCEPT ![p] = Append(@, "waited")]
    /\ UNCHANGED <<now, store, mode, lastWait, posts, gets, vqdResponse, response, outcome,
                   started, svars, uvars, tvars, ovars>>

Wake(p) ==
    /\ pc[p] = "sleeping"
    /\ now >= wakeAt[p]
    /\ pc' = [pc EXCEPT ![p] = "negotiate"]
    /\ wakeAt' = [wakeAt EXCEPT ![p] = 0]
    /\ trace' = [trace EXCEPT ![p] = Append(@, "waited")]
    /\ UNCHANGED <<now, store, info, mode, lastWait, posts, gets, vqdResponse, response, outcome,
                   started, svars, uvars, tvars, ovars>>

\* chat()/chatStream() returns or throws: `how` is what the caller gets.
EndRequest(p, how) ==
    /\ pc' = [pc EXCEPT ![p] = "done"]
    /\ outcome' = [outcome EXCEPT ![p] = how]

\* Handshake in a request that updates the rate limit tracking before it
\* negotiates.
Handshake_RecordsFirst(p, resp) ==
    /\ pc[p] = "negotiate"
    /\ gets' = [gets EXCEPT ![p] = @ + 1]
    /\ vqdResponse' = [vqdResponse EXCEPT ![p] = <<resp, <<p, gets[p] + 1>>>>]
    /\ trace' = [trace EXCEPT ![p] = Append(@, "handshake")]
    /\ info' = [info EXCEPT ![owner[p]] = RecordInfo(@, now)]
    /\ store' = StoreWrite(RecordInfo(info[owner[p]], now), owner[p], now)
    /\ IF Negotiate(resp) = "ok"
       THEN /\ pc' = [pc EXCEPT ![p] = "ready"]
            /\ UNCHANGED outcome
       ELSE EndRequest(p, Outcome(Negotiate(resp), 0, 0))
    /\ UNCHANGED <<now, mode, wakeAt, lastWait, posts, response, started,
                   svars, uvars, tvars, ovars>>

\* getVQD(): one GET of the status endpoint; then the evaluation of the
\* challenge, the structure check and hashClientHashes().  Whatever is thrown
\* goes to the caller.
Handshake(p, resp) ==
    /\ pc[p] = "negotiate"
    /\ gets' = [gets EXCEPT ![p] = @ + 1]
    /\ vqdResponse' = [vqdResponse EXCEPT ![p] = <<resp, <<p, gets[p] + 1>>>>]
    /\ trace' = [trace EXCEPT ![p] = Append(@, "handshake")]
    /\ IF Negotiate(resp) = "ok"
       THEN /\ pc' = [pc EXCEPT ![p] = "ready"]
            /\ UNCHANGED outcome
       ELSE EndRequest(p, Outcome(Negotiate(resp), 0, 0))
    /\ UNCHANGED <<now, store, info, mode, wakeAt, lastWait, posts, response, started,
                   svars, uvars, tvars, ovars>>

\* Credential kept in the DuckAI instance rather than in the call: every call
\* of the process posts the one held there.
Credential_OfInstance(p) == <<owner[p], gets[owner[p]]>>

\* The credential chat()/chatStream() attaches to its POST: the vqd and hash
\* locals of the call, named by the handshake GET they came from.
Credential(p) == vqdResponse[p][2]

\* "Update rate limit tracking BEFORE making the request", then the fetch of
\* the chat endpoint is issued: one synchronous block.
RecordAndPost(p) ==
    /\ pc[p] = "ready"
    /\ LET mem == RecordInfo(info[owner[p]], now) IN
       /\ info' = [info EXCEPT ![owner[p]] = mem]
       /\ store' = StoreWrite(mem, owner[p], now)
    /\ posts' = Append(posts, <<p, now, Credential(p)>>)
    /\ trace' = [trace EXCEPT ![p] = @ \o <<"record", "post">>]
    /\ pc' = [pc EXCEPT ![p] = "awaiting"]
    \* the challenge went into the x-vqd-hash-1 header and is not read again
    /\ vqdResponse' = [vqdResponse EXCEPT ![p] = <<>>]
    /\ UNCHANGED <<now, mode, wakeAt, lastWait, gets, response, outcome, started,
                   svars, uvars, tvars, ovars>>

\* The chat endpoint answers: 429, another non-2xx status, or 2xx.  Either
\* error is thrown to the caller; nothing else is done.
Respond(p, resp) ==
    /\ pc[p] = "awaiting"
    /\ response' = [response EXCEPT ![p] = <<resp>>]
    /\ EndRequest(p, UpstreamOutcome(resp))
    /\ trace' = [trace EXCEPT ![p] = Append(@, "response")]
    /\ UNCHANGED <<now, store, info, mode, wakeAt, lastWait, posts, gets, vqdResponse, started,
                   svars, uvars, tvars, ovars>>

\* The caller has taken the result; the locals of the request are gone.
Return(p) ==
    /\ pc[p] = "done"
    /\ pc' = [pc EXCEPT ![p] = "idle"]
    /\ outcome' = [outcome EXCEPT ![p] = Outcome("none", 0, 0)]
    /\ mode' = [mode EXCEPT ![p] = "none"]
    /\ lastWait' = [lastWait EXCEPT ![p] = NoWait]
    /\ trace' = [trace EXCEPT ![p] = <<>>]
    /\ vqdResponse' = [vqdResponse EXCEPT ![p] = <<>>]
    /\ response' = [response EXCEPT ![p] = <<>>]
    /\ UNCHANGED <<now, store, info, wakeAt, posts, gets, started, svars, uvars, tvars, ovars>>

\* getRateLimitStatus(): loads and prunes the memory, writes nothing.
\* A status query that saves what it pruned.
Status_Saving(p) ==
    /\ info' = [info EXCEPT ![owner[p]] = AdmitInfo(info[owner[p]], store, now)]
    /\ info' # info
    /\ store' = StoreWrite(AdmitInfo(info[owner[p]], store, now), owner[p], now)
    /\ UNCHANGED <<now, pc, mode, wakeAt, lastWait, trace, posts, gets, vqdResponse, response,
                   outcome, started, svars, uvars, tvars, ovars>>

Status(p) ==
    /\ info' = [info EXCEPT ![owner[p]] = AdmitInfo(info[owner[p]], store, now)]
    /\ info' # info
    /\ UNCHANGED <<now, store, pc, mode, wakeAt, lastWait, trace, posts, gets, vqdResponse, response,
                   outcome, started, svars, uvars, tvars, ovars>>

\* SharedRateLimitMonitor.clearStore(), run from the monitor's command line.
ClearStore ==
    /\ store # <<>>
    /\ store' = StoreClear
    /\ UNCHANGED <<now, info, pc, mode, wakeAt, lastWait, trace, posts, gets, vqdResponse, response,
                   outcome, started, svars, uvars, tvars, ovars>>

\* Time passes, up to instant t.
Tick(t) ==
    /\ t > now
    /\ now' = t
    /\ UNCHANGED <<store, info, pc, mode, wakeAt, lastWait, trace, posts, gets, vqdResponse, response,
                   outcome, started, svars, uvars, tvars, ovars>>

\* Time passes until the timer of a sleeping process is due.
TickToWake(p) ==
    /\ pc[p] = "sleeping"
    /\ wakeAt[p] <= StartTime + Horizon
    /\ Tick(wakeAt[p])

Statuses == {r.status : r \in UpstreamResponses}

\* A request of process p, the two endpoints answering from H and R.
Request(p, H, R) ==
    \/ \E m \in {"chat", "stream"} : Admit(p, m)
    \/ Wake(p)
    \/ \E resp \in H : Handshake(p, resp)
    \/ RecordAndPost(p)
    \/ \E resp \in R : Respond(p, resp)
    \/ Return(p)
    \/ TickToWake(p)

\* The answers the endpoints give while two processes run side by side: the
\* handshake succeeds or is refused; the chat POST is answered 200, 429
\* without a retry-after header, or 500.
SharedHandshakes == {r \in HandshakeResponses : r.vqd /\ r.hash = "ok" /\ r.client = "array"
                                                  /\ r.server = "array"}

SharedResponses == {r \in UpstreamResponses : r.retryAfter = <<>>}

Limiter ==
    \/ \E p \in Procs : Request(p, SharedHandshakes, SharedResponses)
    \/ \E p \in Procs : Status(p)
    \/ ClearStore
    \/ \E d \in ClockOffsets : Tick(StartTime + d)

Next == Limiter

Spec == Init /\ [][Next]_vars

\* One gateway process alone, handling its requests one at a time, the
\* endpoints answering in every way listed.
Solo ==
    \/ Request("p1", HandshakeResponses, UpstreamResponses)
    \/ \E d \in ClockOffsets : Tick(StartTime + d)

NextSolo == Solo

SpecSolo == Init /\ [][NextSolo]_vars

\* The ages, at StartTime, of the timestamps a window may hold: fresh, and
\* around the length of the window.
StampAges == {0, WINDOW_SIZE_MS - 1, WINDOW_SIZE_MS, WINDOW_SIZE_MS + 1}

\* The windows pruning is applied to: up to MaxStamps timestamps in the order
\* they were pushed.
StampLists ==
    UNION { { ts \in [1..n -> {StartTime - a : a \in StampAges}] :
                \A i \in 1..(n - 1) : ts[i] <= ts[i + 1] } : n \in 0..MaxStamps }

\* A gateway process that holds the window ts in memory; no file.
InitPrune ==
    /\ NoStream
    /\ NoUpdate
    /\ NoTools
    /\ NoService
    /\ now = StartTime
    /\ store = <<>>
    /\ owner = OwnProcess
    /\ NoRequests
    /\ \E ts \in StampLists :
          info = [p \in Procs |->
                    [EmptyInfo EXCEPT !.requestTimestamps = ts,
                                      !.lastRequestTime = IF ts = <<>> THEN 0 ELSE Last(ts)]]

\* cleanOldTimestamps() is called and returns.
Prune(p) ==
    /\ pc[p] = "idle"
    /\ pc' = [pc EXCEPT ![p] = "pruned"]
    /\ info' = [info EXCEPT ![owner[p]].requestTimestamps = cleanOldTimestamps(@, now)]
    /\ UNCHANGED <<now, store, mode, wakeAt, lastWait, trace, posts, gets, vqdResponse, response,
                   outcome, started, svars, uvars, tvars, ovars>>

\* The instants pruning is looked at: StartTime and the next milliseconds.
PruneTicks == {1, 2}

Pruning ==
    \/ Prune("p1")
    \/ \E d \in PruneTicks : Tick(StartTime + d)

NextPrune == Pruning

SpecPrune == InitPrune /\ [][NextPrune]_vars

\* An updater passed to update(): it adds the request made at t to the record
\* it is given, starting a record when given null.
Updater(cur, t) ==
    IF cur = <<>>
    THEN [EmptyInfo EXCEPT !.requestTimestamps = <<t>>, !.lastRequestTime = t]
    ELSE [requestTimestamps |-> Append(cur[1].requestTimestamps, t),
          lastRequestTime |-> t,
          isLimited |-> cur[1].isLimited,
          retryAfter |-> cur[1].retryAfter]

\* update(), first statement: const current = this.read().
UpdateRead(p) ==
    /\ current[p] = <<>>
    /\ started < MaxUpdates
    /\ started' = started + 1
    /\ current' = [current EXCEPT ![p] = <<StoreRead(store, now)>>]
    /\ UNCHANGED <<now, store, info, pc, mode, wakeAt, lastWait, trace, posts, gets, vqdResponse,
                   response, outcome, owner, svars, tvars, ovars>>

\* update(), the rest: this.write(updater(current)).
UpdateWrite(p) ==
    /\ current[p] # <<>>
    /\ store' = StoreWrite(Updater(current[p][1], now), owner[p], now)
    /\ current' = [current EXCEPT ![p] = <<>>]
    /\ UNCHANGED <<now, info, pc, mode, wakeAt, lastWait, trace, posts, gets, vqdResponse,
                   response, outcome, started, owner, svars, tvars, ovars>>

\* Gateway processes that call update() on the one file, each at its own
\* pace.
Updating ==
    \/ \E p \in Procs : UpdateRead(p)
    \/ \E p \in Procs : UpdateWrite(p)
    \/ \E d \in ClockOffsets : Tick(StartTime + d)

NextUpdate == Updating

SpecUpdate == Init /\ [][NextUpdate]_vars

\* Both request slots run in the one gateway process "p1": two calls of
\* chat()/chatStream() on the same DuckAI instance, each suspended at its
\* awaits while the other runs.
OneProcess == [p \in Procs |-> "p1"]

InitOneProcess == \E st \in InitStores : InitLimiter(st, OneProcess)

Interleaved ==
    \/ \E p \in Procs : Request(p, SharedHandshakes, SharedResponses)
    \/ \E d \in ClockOffsets : Tick(StartTime + d)

NextOneProcess == Interleaved

SpecOneProcess == InitOneProcess /\ [][NextOneProcess]_vars

\* The same, with the steps the process takes by itself taken in the end: a
\* due timer fires, the synchronous block after the handshake runs, the
\* caller gets the result.  The clock reaches the instant a timer is due.
\* Nothing makes the two endpoints answer.
SpecSoloFair ==
    /\ SpecSolo
    /\ WF_vars(TickToWake("p1"))
    /\ WF_vars(Wake("p1"))
    /\ WF_vars(RecordAndPost("p1"))
    /\ WF_vars(Return("p1"))

----------------------------------------------------------------------------
(* The body of a 2xx answer of the chat endpoint *)

\* A line of the body, by what the extraction asks of it: whether it starts
\* with "data: ", whether the rest (the line itself, without the prefix)
\* parses as JSON, the message the parsed object carries (<<>>: none, or the
\* empty string) and its action.  A message is a sequence of characters.
MsgLine(m) == [data |-> TRUE, json |-> TRUE, message |-> m, action |-> "none"]

NoMsgLine == [data |-> TRUE, json |-> TRUE, message |-> <<>>, action |-> "none"]

BadLine == [data |-> TRUE, json |-> FALSE, message |-> <<>>, action |-> "none"]

\* An empty line.
BlankLine == [data |-> FALSE, json |-> FALSE, message |-> <<>>, action |-> "none"]

\* A line that is a JSON object with action: "error", and one that is a JSON
\* object without it.
ErrorLine == [data |-> FALSE, json |-> TRUE, message |-> <<>>, action |-> "error"]

JsonLine == [data |-> FALSE, json |-> TRUE, message |-> <<>>, action |-> "none"]

Lines == {MsgLine(<<"a">>), MsgLine(<<" ">>), NoMsgLine, BadLine, BlankLine}

MaxLines == 3

Bodies == UNION {[1..n -> Lines] : n \in 0..MaxLines}

\* Bodies that are one JSON text, not an event stream.
JsonBodies == {<<ErrorLine>>, <<ErrorLine, BlankLine>>, <<JsonLine>>}

\* Where the network reads end: after line i and its line break ("break"),
\* inside line i ("cut"), or not at line i ("join").
CutKinds == {"join", "break", "cut"}

\* The two pieces of a line cut by the end of a read, as the extraction sees
\* them: the first ends before the JSON text does, the second does not start
\* with "data: ".
HeadPiece(l) == [l EXCEPT !.json = FALSE, !.message = <<>>, !.action = "none"]

TailPiece(l) == [data |-> FALSE, json |-> FALSE, message |-> <<>>, action |-> "none"]

\* The reads of a body: each is the sequence of the pieces that
\* chunk.split("\n") yields.
RECURSIVE SplitReads(_, _, _, _)
SplitReads(b, c, i, cur) ==
    IF i > Len(b) THEN (IF cur = <<>> THEN <<>> ELSE <<cur>>)
    ELSE IF c[i] = "join" THEN SplitReads(b, c, i + 1, Append(cur, b[i]))
    ELSE IF c[i] = "break" THEN <<Append(cur, b[i])>> \o SplitReads(b, c, i + 1, <<>>)
    ELSE <<Append(cur, HeadPiece(b[i]))>> \o SplitReads(b, c, i + 1, <<TailPiece(b[i])>>)

----------------------------------------------------------------------------
(* DuckAI.chat() and DuckAI.chatStream(): the extraction *)

FALLBACK == <<"I apologize, but I'm unable to provide a response at the moment. Please try again.">>

\* line.startsWith("data: "), JSON.parse(line.slice(6)), if (json.message):
\* the fragments (none or one) a line gives.
lineMessage(l) ==
    IF l.data /\ l.json /\ l.message # <<>> THEN <<l.message>> ELSE <<>>

\* The fragments of a sequence of lines, in order.
RECURSIVE extractMessages(_)
extractMessages(ls) ==
    IF ls = <<>> THEN <<>> ELSE lineMessage(Head(ls)) \o extractMessages(Tail(ls))

\* The concatenation of a sequence of strings.
RECURSIVE Concat(_)
Concat(ms) == IF ms = <<>> THEN <<>> ELSE Head(ms) \o Concat(Tail(ms))

\* String.prototype.trim()
RECURSIVE trim(_)
trim(str) ==
    IF str = <<>> THEN <<>>
    ELSE IF Head(str) = " " THEN trim(Tail(str))
    ELSE IF str[Len(str)] = " " THEN trim(SubSeq(str, 1, Len(str) - 1))
    ELSE str

\* chatContent that returns what is left after the trim, empty or not.
chatContent_NoFallback(b) ==
    LET llmResponse == Concat(extractMessages(b))
    IN trim(llmResponse)

\* chatContent without the trim.
chatContent_NoTrim(b) ==
    LET llmResponse == Concat(extractMessages(b))
    IN IF llmResponse = <<>> THEN FALLBACK ELSE llmResponse

\* The extraction of chat(): the fragments of all lines, joined and trimmed,
\* or the fallback.
chatContent(b) ==
    LET llmResponse == Concat(extractMessages(b))
        finalResponse == trim(llmResponse)
    IN IF finalResponse = <<>> THEN FALLBACK ELSE finalResponse

\* JSON.parse(text): <<>> when it throws, <<the parsed object>> otherwise.
\* The text is one JSON value when one of its lines is and the others are
\* empty.
parseBody(b) ==
    LET ls == SelectSeq(b, LAMBDA l : l # BlankLine)
    IN IF Len(ls) = 1 /\ ~ls[1].data /\ ls[1].json THEN <<ls[1]>> ELSE <<>>

DuckAiError == <<"Duck.ai error">>

\* "Check for errors": what leaves the try/catch block.  JSON.parse(text) and
\* the throw for parsed.action === "error" are both inside the try; the catch
\* takes whatever is thrown and goes on.
errorCheck(b) ==
    LET parsed == parseBody(b)
        thrown == IF parsed = <<>> THEN <<"SyntaxError">>
                  ELSE IF parsed[1].action = "error" THEN DuckAiError
                  ELSE <<>>
        caught == thrown
    IN IF caught # <<>> THEN <<>> ELSE thrown

\* What chat() gives for a 2xx body: what the check for errors throws, or the
\* extracted content.
chatResult(b) == IF errorCheck(b) # <<>> THEN errorCheck(b) ELSE chatContent(b)

----------------------------------------------------------------------------
(* OpenAIService.createChatCompletionStream(): the translation *)

\* What the translator is called with and generates once per response:
\* generateId(), getCurrentTimestamp(), request.model.
Completions ==
    { [id |-> "chatcmpl-1", created |-> StartTime \div 1000, model |-> "gpt-4o-mini"],
      [id |-> "chatcmpl-2", created |-> StartTime \div 1000 + 1, model |-> "o3-mini"] }

\* The chunk for a fragment, carrying the role too.
streamChunk_AlwaysRole(first, value) ==
    [type |-> "chunk", id |-> id, created |-> created, model |-> model,
     role |-> "assistant", content |-> <<value>>, finish_reason |-> "null"]

\* The chunk for a fragment: the first one carries the role too.
streamChunk(first, value) ==
    [type |-> "chunk", id |-> id, created |-> created, model |-> model,
     role |-> IF first THEN "assistant" ELSE "none",
     content |-> <<value>>, finish_reason |-> "null"]

\* The final chunk: an empty delta, finish_reason "stop".
finalChunk ==
    [type |-> "chunk", id |-> id, created |-> created, model |-> model,
     role |-> "none", content |-> <<>>, finish_reason |-> "stop"]

\* data: [DONE]
finalDone ==
    [type |-> "done", id |-> "none", created |-> 0, model |-> "none",
     role |-> "none", content |-> <<>>, finish_reason |-> "none"]

----------------------------------------------------------------------------
(* One body, answered to chat() and then streamed to chatStream() *)

NoLimiter ==
    /\ now = StartTime
    /\ store = <<>>
    /\ info = [p \in Procs |-> EmptyInfo]
    /\ pc = [p \in Procs |-> "awaiting"]
    /\ mode = [p \in Procs |-> "none"]
    /\ wakeAt = [p \in Procs |-> 0]
    /\ lastWait = [p \in Procs |-> NoWait]
    /\ trace = [p \in Procs |-> <<>>]
    /\ posts = <<>>
    /\ gets = [p \in Procs |-> 0]
    /\ vqdResponse = [p \in Procs |-> <<>>]
    /\ response = [p \in Procs |-> <<[status |-> 200, retryAfter |-> <<>>]>>]
    /\ outcome = [p \in Procs |-> Outcome("pending", 0, 0)]
    /\ started = 0

InitStream ==
    /\ NoLimiter
    /\ body \in Bodies \cup JsonBodies
    /\ cuts \in [1..Len(body) -> CutKinds]
    \* an empty line has no inside
    /\ \A i \in 1..Len(body) : cuts[i] = "cut" => body[i] # BlankLine
    /\ reads = SplitReads(body, cuts, 1, <<>>)
    /\ chatOut = <<>>
    /\ duckQ = <<>>
    /\ duckClosed = FALSE
    /\ isFirst = TRUE
    /\ out = <<>>
    /\ outClosed = FALSE
    /\ duckErrored = FALSE
    /\ cancelled = FALSE
    /\ rejected = FALSE
    /\ owner = OwnProcess
    /\ NoUpdate
    /\ NoTools
    /\ NoService
    /\ \E c \in Completions : id = c.id /\ created = c.created /\ model = c.model

\* chat(): response.text(), the check for errors and the extraction.
Chat ==
    /\ chatOut = <<>>
    /\ chatOut' = <<chatResult(body)>>
    /\ UNCHANGED <<body, cuts, reads, duckQ, duckClosed, isFirst, out, outClosed,
                   duckErrored, cancelled, rejected, id, created, model, lvars, uvars, tvars, ovars>>

\* chatStream(), pump(): a read that brings data; every fragment of its
\* lines is enqueued.  Nothing tells this pump that the translated stream was
\* cancelled.
UpstreamRead ==
    /\ chatOut # <<>>
    /\ reads # <<>>
    /\ ~duckErrored
    /\ duckQ' = duckQ \o extractMessages(Head(reads))
    /\ reads' = Tail(reads)
    /\ UNCHANGED <<body, cuts, chatOut, duckClosed, isFirst, out, outClosed,
                   duckErrored, cancelled, rejected, id, created, model, lvars, uvars, tvars, ovars>>

\* chatStream(), pump(): the read that says done.
UpstreamDone ==
    /\ chatOut # <<>>
    /\ reads = <<>>
    /\ ~duckClosed
    /\ ~duckErrored
    /\ duckClosed' = TRUE
    /\ UNCHANGED <<body, cuts, reads, chatOut, duckQ, isFirst, out, outClosed,
                   duckErrored, cancelled, rejected, id, created, model, lvars, uvars, tvars, ovars>>

\* chatStream(), pump(): the network read is rejected (the connection broke).
\* The promise start() returned is rejected, which errors the stream and
\* empties its queue.
UpstreamFail ==
    /\ chatOut # <<>>
    /\ ~duckClosed
    /\ ~duckErrored
    /\ duckErrored' = TRUE
    /\ duckQ' = <<>>
    /\ UNCHANGED <<body, cuts, reads, chatOut, duckClosed, isFirst, out, outClosed,
                   cancelled, rejected, id, created, model, lvars, uvars, tvars, ovars>>

\* TranslateChunk that sends the fragment enqueued last.
TranslateChunk_Latest ==
    /\ duckQ # <<>>
    /\ ~outClosed
    /\ ~rejected
    /\ isFirst' = FALSE
    /\ duckQ' = Tail(duckQ)
    /\ IF cancelled
       THEN rejected' = TRUE /\ UNCHANGED out
       ELSE out' = Append(out, streamChunk(isFirst, Last(duckQ))) /\ UNCHANGED rejected
    /\ UNCHANGED <<body, cuts, reads, chatOut, duckClosed, outClosed,
                   duckErrored, cancelled, id, created, model, lvars, uvars, tvars, ovars>>

\* createChatCompletionStream(), pump(): a fragment is read and sent on.  Once
\* the stream is cancelled controller.enqueue() throws, which ends the pump.
TranslateChunk ==
    /\ duckQ # <<>>
    /\ ~outClosed
    /\ ~rejected
    /\ isFirst' = FALSE
    /\ duckQ' = Tail(duckQ)
    /\ IF cancelled
       THEN rejected' = TRUE /\ UNCHANGED out
       ELSE out' = Append(out, streamChunk(isFirst, Head(duckQ))) /\ UNCHANGED rejected
    /\ UNCHANGED <<body, cuts, reads, chatOut, duckClosed, outClosed,
                   duckErrored, cancelled, id, created, model, lvars, uvars, tvars, ovars>>

\* TranslateDone that sends the final chunk without the end marker.
TranslateDone_NoSentinel ==
    /\ duckQ = <<>>
    /\ duckClosed
    /\ ~outClosed
    /\ ~rejected
    /\ IF cancelled
       THEN rejected' = TRUE /\ UNCHANGED <<out, outClosed>>
       ELSE /\ out' = out \o <<finalChunk>>
            /\ outClosed' = TRUE
            /\ UNCHANGED rejected
    /\ UNCHANGED <<body, cuts, reads, chatOut, duckQ, duckClosed, isFirst,
                   duckErrored, cancelled, id, created, model, lvars, uvars, tvars, ovars>>

\* createChatCompletionStream(), pump(): the source is done.
TranslateDone ==
    /\ duckQ = <<>>
    /\ duckClosed
    /\ ~outClosed
    /\ ~rejected
    /\ IF cancelled
       THEN rejected' = TRUE /\ UNCHANGED <<out, outClosed>>
       ELSE /\ out' = out \o <<finalChunk, finalDone>>
            /\ outClosed' = TRUE
            /\ UNCHANGED rejected
    /\ UNCHANGED <<body, cuts, reads, chatOut, duckQ, duckClosed, isFirst,
                   duckErrored, cancelled, id, created, model, lvars, uvars, tvars, ovars>>

\* createChatCompletionStream(), pump(): the read of the source is rejected.
\* Nothing handles it: the promise start() returned is rejected, which errors
\* the translated stream unless it was cancelled.
TranslateFail ==
    /\ duckErrored
    /\ ~outClosed
    /\ ~rejected
    /\ rejected' = TRUE
    /\ UNCHANGED <<body, cuts, reads, chatOut, duckQ, duckClosed, isFirst, out, outClosed,
                   duckErrored, cancelled, id, created, model, lvars, uvars, tvars, ovars>>

\* The consumer of the translated stream cancels it (the client went away).
\* The stream was built with start() alone: no cancel() is there to tell the
\* pumps or the network read.
Cancel ==
    /\ chatOut # <<>>
    /\ ~cancelled
    /\ ~outClosed
    /\ ~rejected
    /\ cancelled' = TRUE
    /\ UNCHANGED <<body, cuts, reads, chatOut, duckQ, duckClosed, isFirst, out, outClosed,
                   duckErrored, rejected, id, created, model, lvars, uvars, tvars, ovars>>

NextStream ==
    \/ Chat
    \/ UpstreamRead
    \/ UpstreamDone
    \/ UpstreamFail
    \/ TranslateChunk
    \/ TranslateDone
    \/ TranslateFail
    \/ Cancel

SpecStream == InitStream /\ [][NextStream]_vars

----------------------------------------------------------------------------
(* Properties of the limiter *)

MinOf(ts) == CHOOSE x \in Range(ts) : \A y \in Range(ts) : x <= y

\* The posts inside the 60,000 ms window that ends with post i.
WindowOf(i) == {j \in 1..i : posts[j][2] > posts[i][2] - WINDOW_SIZE_MS}

InFlight(p) == pc[p] \in {"sleeping", "negotiate", "ready", "awaiting"}

\* C1: shouldWaitBeforeRequest() never returns a negative wait, whatever the
\* memory, the store and the time; and the wait is 0 exactly when the pruned
\* window holds fewer than 20 timestamps and at least 1,000 ms have passed
\* since lastRequestTime.  Stated of what admit would return in every
\* reachable state, and of what it did return to every request in flight.
C1_WaitNonNegativeZeroIff ==
    \A p \in Procs :
        /\ LET mem == AdmitInfo(info[p], store, now)
               r == shouldWaitBeforeRequest(info[p], store, now)
           IN /\ r.waitTime >= 0
              /\ (r.waitTime = 0) <=>
                    (/\ Len(mem.requestTimestamps) < MAX_REQUESTS_PER_MINUTE
                     /\ now - mem.lastRequestTime >= MIN_REQUEST_INTERVAL_MS)
        /\ lastWait[p].waitTime >= 0
        /\ InFlight(p) =>
              ((lastWait[p].waitTime = 0) <=>
                    (/\ lastWait[p].count < MAX_REQUESTS_PER_MINUTE
                     /\ lastWait[p].since >= MIN_REQUEST_INTERVAL_MS))

\* One request was admitted with wait 0 (window under the cap, spacing met)
\* while another was told to wait.
C1_Witness ==
    \E p, q \in Procs :
        /\ InFlight(p) /\ lastWait[p].waitTime = 0
        /\ lastWait[p].count < MAX_REQUESTS_PER_MINUTE
        /\ lastWait[p].since >= MIN_REQUEST_INTERVAL_MS
        /\ pc[q] = "sleeping" /\ lastWait[q].waitTime > 0

\* C2: the recorded upstream calls of one process that handles its requests
\* one at a time and sleeps for every wait it is given are at least 1,000 ms
\* apart, whichever branch computed the wait.
C2_MinSpacing ==
    \A i, j \in 1..Len(posts) :
        (i < j /\ posts[i][1] = "p1" /\ posts[j][1] = "p1")
            => posts[j][2] - posts[i][2] >= MIN_REQUEST_INTERVAL_MS

\* C3: when the pruned window holds 20 timestamps or more, the wait is
\* positive and at least the time until the oldest surviving timestamp leaves
\* the window, plus the 100 ms margin.
C3_CapWait ==
    \A p \in Procs :
        /\ LET mem == AdmitInfo(info[p], store, now)
               r == shouldWaitBeforeRequest(info[p], store, now)
           IN Len(mem.requestTimestamps) >= MAX_REQUESTS_PER_MINUTE =>
                /\ r.shouldWait
                /\ r.waitTime > 0
                /\ r.waitTime >= MinOf(mem.requestTimestamps) + WINDOW_SIZE_MS - now
                                    + WAIT_BUFFER_MS
        /\ (InFlight(p) /\ lastWait[p].count >= MAX_REQUESTS_PER_MINUTE) =>
                /\ lastWait[p].shouldWait
                /\ lastWait[p].waitTime > 0
                /\ lastWait[p].waitTime >= lastWait[p].head + WINDOW_SIZE_MS
                                              - lastWait[p].at + WAIT_BUFFER_MS

\* A request found the window full and sleeps.
C3_Witness ==
    \E p \in Procs :
        /\ pc[p] = "sleeping"
        /\ lastWait[p].count >= MAX_REQUESTS_PER_MINUTE
        /\ wakeAt[p] > now

\* The record step of process p: push, save and POST.
RecordStep(p) == pc[p] = "ready" /\ pc'[p] = "awaiting"

\* C4: the window a process persists when it records an attempt holds every
\* still-in-window timestamp the store held when the step began, plus the new
\* one.
C4_NoPersistedEventErased ==
    [][\A p \in Procs :
          (RecordStep(p) /\ StoreRead(store, now) # <<>>) =>
              /\ \A t \in Range(StoreRead(store, now)[1].requestTimestamps) :
                    t > now - WINDOW_SIZE_MS =>
                        t \in Range(store'[1].requestTimestamps)
              /\ now \in Range(store'[1].requestTimestamps)]_vars

\* C5: the cap is only advisory.  More than 20 upstream calls fall inside one
\* 60,000 ms window only when calls of two running processes are among them:
\* one process alone stays within the cap.
C5_OverCapOnlyByRace ==
    \A i \in 1..Len(posts) :
        Cardinality(WindowOf(i)) > MAX_REQUESTS_PER_MINUTE =>
            \A p \in Procs : \E j \in WindowOf(i) : posts[j][1] = p

\* Two processes read the same count below the cap, both were admitted at
\* once, both posted, and the window now holds more than 20 calls.
C5_Witness ==
    /\ \A p \in Procs :
          /\ pc[p] = "awaiting"
          /\ ~lastWait[p].shouldWait
          /\ lastWait[p].count < MAX_REQUESTS_PER_MINUTE
    /\ lastWait["p1"].count = lastWait["p2"].count
    /\ Cardinality(WindowOf(Len(posts))) > MAX_REQUESTS_PER_MINUTE

\* C6: whenever read() yields nothing, admit computes on the empty default
\* state and returns 0, whatever the memory held.
C6_AbsentStoreMeansNoWait ==
    \A p \in Procs :
        StoreRead(store, now) = <<>> =>
            shouldWaitBeforeRequest(info[p], store, now).waitTime = 0

\* C7: after the chat endpoint answered 429 the state is marked limited, in
\* memory and in the store.
C7_LimitedAfter429 ==
    \A p \in Procs :
        (pc[p] = "done" /\ outcome[p].how = "rate_limited") =>
            /\ info[p].isLimited
            /\ info[p].retryAfter # <<>>

IsPrefix(s, t) == Len(s) <= Len(t) /\ \A i \in 1..Len(s) : s[i] = t[i]

RequestOrders ==
    { <<"admit", "handshake", "record", "post", "response">>,
      <<"admit", "waited", "handshake", "record", "post", "response">> }

\* C8: the steps of a request come in the order admit (and wait), handshake,
\* recordAttempt, POST; no POST goes out without a recordAttempt before it in
\* the same request; and the record step leaves the current time as the last
\* timestamp of the window and as lastRequestTime, in memory and in the store,
\* when the POST is issued.
C8_RecordBeforePost ==
    /\ [](\A p \in Procs : \E o \in RequestOrders : IsPrefix(trace[p], o))
    /\ [][\A p \in Procs : RecordStep(p) =>
            /\ info'[p].requestTimestamps # <<>>
            /\ Last(info'[p].requestTimestamps) = now
            /\ info'[p].lastRequestTime = now
            /\ store' # <<>>
            /\ store'[1].requestTimestamps = info'[p].requestTimestamps
            /\ store'[1].lastRequestTime = now
            /\ store'[1].processId = p
            /\ store'[1].lastUpdated = now
            /\ Last(posts')[1] = p
            /\ Last(posts')[2] = now]_vars

\* A request that waited has recorded its attempt and issued its POST.
C8_Witness ==
    \E p \in Procs :
        /\ pc[p] = "awaiting"
        /\ trace[p] = <<"admit", "waited", "handshake", "record", "post">>
        /\ store # <<>> /\ store[1].processId = p

\* C16: in both modes, a 429 answer of the chat endpoint ends the call with
\* the rate-limited error whose wait is the retry-after seconds times 1,000,
\* or 60,000 when the header is absent; any other non-2xx answer ends it with
\* the error that carries the status, a retry-after header notwithstanding;
\* and only a 2xx answer ends it without an error.
C16_StatusHandling ==
    \A p \in Procs :
        (pc[p] = "done" /\ response[p] # <<>>) =>
            LET r == response[p][1]
                o == outcome[p]
            IN /\ mode[p] \in {"chat", "stream"}
               /\ r.status = 429 =>
                     /\ o.how = "rate_limited"
                     /\ o.status = 429
                     /\ o.waitTime = IF r.retryAfter = <<>> THEN 60000
                                     ELSE r.retryAfter[1] * 1000
               /\ (r.status # 429 /\ (r.status < 200 \/ r.status > 299)) =>
                     /\ o.how = "api_error"
                     /\ o.status = r.status
               /\ (o.how = "ok") <=> (r.status >= 200 /\ r.status <= 299)

\* A streaming call was answered 429 with retry-after: 2 and ended with the
\* rate-limited error naming 2,000 ms.
C16_Witness ==
    \E p \in Procs :
        /\ pc[p] = "done" /\ mode[p] = "stream"
        /\ response[p] = <<[status |-> 429, retryAfter |-> <<2>>]>>
        /\ outcome[p] = Outcome("rate_limited", 429, 2000)

\* The handshake answers the claim lists: a non-2xx status, a missing token or
\* challenge header, a challenge atob() refuses, or one that does not decode
\* to an object whose client_hashes is an array.
NegotiationMustFail(resp) ==
    \/ ~resp.ok
    \/ ~resp.vqd
    \/ resp.hash # "ok"
    \/ resp.client # "array"

HandshakesOf(p) == {i \in 1..Len(trace[p]) : trace[p][i] = "handshake"}

\* C17: whenever the handshake is answered in one of these ways the request
\* has ended with an error, after exactly one handshake GET and without a
\* chat POST.
C17_NegotiationFailsOnce ==
    \A p \in Procs :
        (vqdResponse[p] # <<>> /\ NegotiationMustFail(vqdResponse[p][1])) =>
            /\ pc[p] = "done"
            /\ outcome[p].how \in {"vqd_status", "missing_headers", "undecodable",
                                   "invalid_hash_structure"}
            /\ Cardinality(HandshakesOf(p)) = 1
            /\ \A i \in 1..Len(trace[p]) : trace[p][i] # "post"

\* A request that had to wait was refused at the handshake: its challenge did
\* not decode to an object.
C17_Witness ==
    \E p \in Procs :
        /\ pc[p] = "done"
        /\ trace[p] = <<"admit", "waited", "handshake">>
        /\ vqdResponse[p] # <<>> /\ vqdResponse[p][1].hash = "notobject"
        /\ outcome[p].how = "invalid_hash_structure"

\* C18: no chat POST is issued on a challenge whose server_hashes is not an
\* array.
C18_BothHashArraysRequired ==
    [][\A p \in Procs :
          RecordStep(p) => (vqdResponse[p] # <<>> /\ vqdResponse[p][1].server = "array")]_vars

\* C20: every call of chat()/chatStream() that waits for an endpoint completes
\* in the end, with a result or with an error, also when the endpoint never
\* answers.
C20_BoundedCompletion ==
    \A p \in Procs : (pc[p] \in {"negotiate", "awaiting"}) ~> (pc[p] = "done")

----------------------------------------------------------------------------
(* Properties of the extraction and the translation *)

\* The pieces of the body as the reads deliver them, in order.
AllPieces == Concat(SplitReads(body, cuts, 1, <<>>))

\* The content deltas sent so far, in order.
Deltas == LET cs == SelectSeq(out, LAMBDA c : c.content # <<>>)
          IN [i \in 1..Len(cs) |-> cs[i].content[1]]

\* No line is cut by the end of a read.
NoLineCut == \A i \in 1..Len(body) : cuts[i] # "cut"

RoundTripDone == outClosed /\ chatOut # <<>>

RoleChunks == {i \in 1..Len(out) : out[i].role = "assistant"}

\* C10 as stated: in every translated stream, the first chunk carries the
\* role with the first fragment's content, every later non-terminal chunk
\* carries only content, and exactly one chunk carries a role, also when the
\* source gives no fragment.
C10_ExactlyOneRole ==
    outClosed =>
        /\ out[1].role = "assistant" /\ out[1].content # <<>>
        /\ Cardinality(RoleChunks) = 1
        /\ \A i \in 2..Len(out) :
              (out[i].type = "chunk" /\ out[i].finish_reason = "null") =>
                  (out[i].role = "none" /\ out[i].content # <<>>)

\* C10 as amended: a chunk carries the role exactly when it is the first
\* chunk and carries a fragment, which is then the first fragment of the
\* source; every non-terminal chunk carries content; a closed stream holds
\* one role chunk when the source gave a fragment, and none (only the final
\* chunk and the end marker) when it gave none.
C10_RoleWithFirstFragment ==
    /\ \A i \in 1..Len(out) :
          /\ (out[i].role = "assistant") <=> (i = 1 /\ out[1].content # <<>>)
          /\ (out[i].type = "chunk" /\ out[i].finish_reason = "null") =>
                out[i].content # <<>>
    /\ (out # <<>> /\ out[1].content # <<>>) =>
          out[1].content[1] = extractMessages(AllPieces)[1]
    /\ outClosed =>
          /\ Cardinality(RoleChunks) = IF extractMessages(AllPieces) # <<>> THEN 1 ELSE 0
          /\ extractMessages(AllPieces) = <<>> => out = <<finalChunk, finalDone>>

\* A stream of two fragments or more has been translated and closed.
C10_Witness ==
    /\ outClosed
    /\ Len(Deltas) >= 2
    /\ out[1].role = "assistant"
    /\ out[2].role = "none" /\ out[2].content # <<>>

----------------------------------------------------------------------------
(* Properties of the end of a stream, of its order and of its reads *)

\* The translated stream is errored: its pump was rejected while the consumer
\* was still there.
OutErrored == rejected /\ ~cancelled

StopChunks == {i \in 1..Len(out) : out[i].type = "chunk" /\ out[i].finish_reason = "stop"}

Sentinels == {i \in 1..Len(out) : out[i].type = "done"}

\* The stream ends with one final chunk and one end marker, all chunks before
\* them in progress.
Terminated ==
    /\ Len(out) >= 2
    /\ out[Len(out) - 1] = finalChunk
    /\ out[Len(out)] = finalDone
    /\ StopChunks = {Len(out) - 1}
    /\ Sentinels = {Len(out)}
    /\ \A i \in 1..(Len(out) - 2) : out[i].finish_reason = "null"

\* C11 as stated: once the translator has seen the end of its source, closed
\* or failed, the stream it gave its consumer ends with one terminal chunk and
\* one end marker.
C11_TerminatedHoweverSourceEnds ==
    (outClosed \/ OutErrored) => Terminated

\* C11 as amended: a stream the translator closed ends with one terminal chunk
\* (empty delta, stop) and one end marker, every chunk before them in
\* progress; until then no chunk is terminal and no end marker is there; a
\* stream whose source failed is errored as it stands, without either; and
\* nothing is added to a closed or errored stream.
C11_TerminatedOnExhaustion ==
    /\ [](/\ outClosed => (Terminated /\ duckClosed /\ ~duckErrored)
          /\ ~outClosed =>
                (/\ StopChunks = {} /\ Sentinels = {}
                 /\ \A i \in 1..Len(out) : out[i].finish_reason = "null")
          /\ OutErrored => (duckErrored /\ ~outClosed))
    /\ [][(outClosed \/ rejected) => out' = out]_vars

\* The source failed after a fragment was sent on: the translated stream is
\* errored behind a chunk in progress.
C11_Witness ==
    /\ OutErrored
    /\ duckErrored
    /\ out # <<>>
    /\ Last(out).finish_reason = "null"

\* The reads chatStream() has had.
ReadsDone ==
    LET all == SplitReads(body, cuts, 1, <<>>)
    IN SubSeq(all, 1, Len(all) - Len(reads))

\* The fragments chatStream() has produced so far, in order.
Produced == extractMessages(Concat(ReadsDone))

\* C12: the content deltas are, element by element, the fragments the
\* upstream client produced: at every moment the deltas sent, followed by the
\* fragments waiting in the source, are the fragments produced (while the
\* consumer is there and the source has not failed); the deltas are always a
\* prefix of them; a closed stream carries all of them; and every chunk of the
\* response has the same id, created time and model.
C12_NoReorderDropDuplicateMerge ==
    /\ IsPrefix(Deltas, Produced)
    /\ (~cancelled /\ ~duckErrored) => Deltas \o duckQ = Produced
    /\ outClosed => (reads = <<>> /\ Deltas = Produced)
    /\ \A i \in 1..Len(out) :
          /\ out[i].type = "chunk" =>
                (out[i].id = id /\ out[i].created = created /\ out[i].model = model)
          /\ (out[i].type = "chunk" /\ out[i].finish_reason = "null") =>
                Len(out[i].content) = 1

\* Two different fragments arrived in one read, waited together in the source
\* and were sent on as two chunks in their order; the stream is closed.
C12_Witness ==
    /\ outClosed
    /\ Len(SplitReads(body, cuts, 1, <<>>)) = 1
    /\ Len(Deltas) = 2
    /\ Deltas = <<body[1].message, body[2].message>>
    /\ Deltas[1] # Deltas[2]

\* C13: whatever the split into reads, a stream that ended normally has
\* emitted the fragments of the lines of the whole body.
C13_SplitIndependent ==
    (outClosed /\ duckClosed) => Deltas = extractMessages(body)

\* C14: for a body that parses as JSON and carries action: "error", chat()
\* fails with the upstream's error and returns no content.
C14_ErrorBodyFails ==
    (chatOut # <<>> /\ parseBody(body) # <<>> /\ parseBody(body)[1].action = "error") =>
        chatOut[1] = DuckAiError

\* r is s without the spaces at its two ends.
IsTrimOf(r, s) ==
    \E i \in 1..(Len(s) + 1) : \E j \in 0..Len(s) :
        /\ r = SubSeq(s, i, j)
        /\ \A k \in 1..Len(s) : (k < i \/ k > j) => s[k] = " "
        /\ r # <<>> => (r[1] # " " /\ r[Len(r)] # " ")

\* The lines that give a fragment: data lines whose JSON carries a message.
FragmentLines(b) ==
    SelectSeq(b, LAMBDA l : l.data /\ l.json /\ l.message # <<>>)

\* The messages of a sequence of lines, joined.
RECURSIVE JoinMessages(_)
JoinMessages(ls) ==
    IF ls = <<>> THEN <<>> ELSE JoinMessages(SubSeq(ls, 1, Len(ls) - 1)) \o Last(ls).message

\* C15: what chat() returns for a 2xx body is never empty: it is the messages
\* of the data lines that carry one, joined in order and trimmed, all other
\* lines skipped; or the fallback when that is empty.
C15_NeverEmpty ==
    chatOut # <<>> =>
        /\ chatOut[1] # <<>>
        /\ \/ /\ chatOut[1] # FALLBACK
              /\ IsTrimOf(chatOut[1], JoinMessages(FragmentLines(body)))
           \/ /\ chatOut[1] = FALLBACK
              /\ IsTrimOf(<<>>, JoinMessages(FragmentLines(body)))

\* A body of three lines, one unparsable and one whose message is blank, was
\* answered with the fallback.
C15_Witness ==
    /\ chatOut = <<FALLBACK>>
    /\ Len(body) = 3
    /\ \E i \in 1..3 : body[i] = BadLine
    /\ \E i \in 1..3 : body[i] = MsgLine(<<" ">>)

\* C19: once the consumer has cancelled the translated stream no upstream
\* read is performed.
C19_NoReadAfterCancel ==
    [][cancelled => (reads' = reads /\ duckClosed' = duckClosed)]_vars

-----------------------------------------------------------------------------
(* ToolService: validateTools *)

\* The tool definitions a request may carry.  type is "function", another
\* value or absent; function is there or not; its name is a non-empty
\* string, the empty string, absent or a number; its parameters are absent,
\* an object schema (type "object") or something else.
ToolKinds ==
    [type : {"function", "other", "absent"}, function : {TRUE},
     name : {"ok", "empty", "absent", "number"},
     parameters : {"absent", "object", "other"}]
    \cup [type : {"function", "other", "absent"}, function : {FALSE},
          name : {"absent"}, parameters : {"absent"}]

\* The values passed as `tools`: lists of up to MaxTools definitions, and a
\* value that is not an array.
ToolInputs ==
    [isArray : {TRUE}, items : UNION {[1..n -> ToolKinds] : n \in 0..MaxTools}]
    \cup [isArray : {FALSE}, items : {<<>>}]

\* The body of the forEach callback: the errors pushed for the tool at index.
toolErrors(tool, index) ==
    (IF tool.type # "function" THEN <<<<index, "type">>>> ELSE <<>>)
    \o (IF ~tool.function THEN <<<<index, "function">>>>
        ELSE (IF tool.name # "ok" THEN <<<<index, "name">>>> ELSE <<>>)
             \o (IF tool.parameters = "other" THEN <<<<index, "parameters">>>> ELSE <<>>))

RECURSIVE errorsFrom(_, _)
\* The errors of the tools at positions i.. of items (indexes count from 0).
errorsFrom(items, i) ==
    IF i > Len(items) THEN <<>>
    ELSE toolErrors(items[i], i - 1) \o errorsFrom(items, i + 1)

RECURSIVE errorsUntilFirst(_, _)
errorsUntilFirst(items, i) ==
    IF i > Len(items) THEN <<>>
    ELSE IF toolErrors(items[i], i - 1) # <<>> THEN toolErrors(items[i], i - 1)
    ELSE errorsUntilFirst(items, i + 1)

\* validateTools that stops at the first tool it finds fault with.
validateTools_ShortCircuit(t) ==
    IF ~t.isArray THEN [valid |-> FALSE, errors |-> <<<<0, "notarray">>>>]
    ELSE LET errors == errorsUntilFirst(t.items, 1)
         IN [valid |-> errors = <<>>, errors |-> errors]

\* validateTools(tools)
validateTools(t) ==
    IF ~t.isArray THEN [valid |-> FALSE, errors |-> <<<<0, "notarray">>>>]
    ELSE LET errors == errorsFrom(t.items, 1)
         IN [valid |-> errors = <<>>, errors |-> errors]

\* No limiter, no response body, no reply: ToolService alone.
NoGateway ==
    /\ NoLimiter
    /\ NoStream
    /\ NoUpdate
    /\ owner = OwnProcess

InitValidate ==
    /\ NoGateway
    /\ NoService
    /\ tools \in ToolInputs
    /\ validation = <<>>
    /\ content = <<>>
    /\ extracted = <<>>
    /\ reextracted = <<>>

\* validateTools(tools) is called and returns.
Validate ==
    /\ validation = <<>>
    /\ validation' = <<validateTools(tools)>>
    /\ UNCHANGED <<lvars, svars, uvars, ovars, tools, content, extracted, reextracted>>

NextValidate == Validate

SpecValidate == InitValidate /\ [][NextValidate]_vars

-----------------------------------------------------------------------------
(* ToolService: extractFunctionCalls *)

\* call.id of an entry: absent, or the entry's own.  The id of a ToolCall is
\* one of these or `call_${Date.now()}_${index}`.
NoId == [src |-> "absent", text |-> "", time |-> 0, index |-> 0]
OwnId == [src |-> "own", text |-> "call_abc", time |-> 0, index |-> 0]
SynthesizedId(t, index) == [src |-> "call", text |-> "", time |-> t, index |-> index]

\* call.function.arguments of an entry: a string, an object, an object with
\* an array inside (its text holds a "]"), or absent.
NoArguments == [kind |-> "absent", text |-> "", bracket |-> FALSE]
Arguments ==
    { [kind |-> "string", text |-> "{}", bracket |-> FALSE],
      [kind |-> "object", text |-> "{a:1}", bracket |-> FALSE],
      [kind |-> "object", text |-> "{a:[1]}", bracket |-> TRUE],
      NoArguments }

\* The value undefined in the arguments field of a ToolCall.
Undefined == [kind |-> "undefined", text |-> "", bracket |-> FALSE]

\* The entries of a tool_calls array: with a function object (named, its
\* name written before its arguments; or unnamed), or without one.
EntryKinds ==
    [id : {NoId, OwnId}, function : {TRUE}, name : {"get_weather"}, arguments : Arguments]
    \cup [id : {OwnId}, function : {TRUE}, name : {"undefined"},
          arguments : {a \in Arguments : a.kind = "string"}]
    \cup [id : {NoId, OwnId}, function : {FALSE}, name : {"undefined"},
          arguments : {NoArguments}]

EntryLists == UNION {[1..n -> EntryKinds] : n \in 0..MaxCalls}

\* The replies of the model, by shape:
\*   clean      the JSON object {"tool_calls": [entries]}
\*   wrapped    prose around "tool_calls": [entries]
\*   broken     prose around "tool_calls": [entries,]  (a trailing comma)
\*   fragments  prose around the entries, without the tool_calls key
\*   plain      prose
\*   json       a JSON object without tool_calls
\*   notarray   a JSON object whose tool_calls is a string
\*   null       the text null
\*   scalar     the text 42
Replies ==
    [shape : {"clean", "wrapped", "broken", "fragments"}, entries : EntryLists]
    \cup [shape : {"plain", "json", "notarray", "null", "scalar"}, entries : {<<>>}]

\* JSON.parse(content.trim()): it throws ("invalid"), or gives null, a
\* scalar, or an object whose tool_calls is absent, not an array, or the
\* array of the entries.
parse(c) ==
    CASE c.shape = "clean" -> [json |-> "object", tool_calls |-> "array"]
      [] c.shape = "json" -> [json |-> "object", tool_calls |-> "absent"]
      [] c.shape = "notarray" -> [json |-> "object", tool_calls |-> "notarray"]
      [] c.shape = "null" -> [json |-> "null", tool_calls |-> "absent"]
      [] c.shape = "scalar" -> [json |-> "scalar", tool_calls |-> "absent"]
      [] OTHER -> [json |-> "invalid", tool_calls |-> "absent"]

\* content.match(/tool_calls\s*:\s*\[(.*?)\]/s) and JSON.parse of the
\* bracketed capture: no match, a capture that does not parse (the trailing
\* comma; or the capture, which is lazy, ends at a "]" inside an entry), or
\* the array of the entries.
toolCallsMatch(c) ==
    IF c.shape \notin {"clean", "wrapped", "broken"} THEN "none"
    ELSE IF c.shape = "broken" THEN "malformed"
    ELSE IF \E i \in 1..Len(c.entries) : c.entries[i].arguments.bracket THEN "malformed"
    ELSE "array"

\* The mapping of one entry that always makes up an id.
decodeCall_FreshId(call, t, index) ==
    [id |-> SynthesizedId(t, index),
     type |-> "function",
     name |-> call.name,
     arguments |-> IF call.arguments.kind = "string" THEN call.arguments
                   ELSE IF call.arguments.kind = "object"
                   THEN [call.arguments EXCEPT !.kind = "string"]
                   ELSE Undefined]

\* The mapping of one entry: id: call.id || `call_${Date.now()}_${index}`,
\* arguments: the string, or JSON.stringify() of what is there;
\* JSON.stringify(undefined) is undefined.
decodeCall(call, t, index) ==
    [id |-> IF call.id.src = "absent" THEN SynthesizedId(t, index) ELSE call.id,
     type |-> "function",
     name |-> call.name,
     arguments |-> IF call.arguments.kind = "string" THEN call.arguments
                   ELSE IF call.arguments.kind = "object"
                   THEN [call.arguments EXCEPT !.kind = "string"]
                   ELSE Undefined]

\* entries.map(...): it throws at an entry without a function object
\* (call.function.name of undefined).
decode(entries, t) ==
    IF \E i \in 1..Len(entries) : ~entries[i].function
    THEN [threw |-> TRUE, calls |-> <<>>]
    ELSE [threw |-> FALSE,
          calls |-> [i \in 1..Len(entries) |-> decodeCall(entries[i], t, i - 1)]]

\* What functionPattern matches: "function": {... "name": "...", ...
\* "arguments": "..." with no "}" in between.
Matched(call) ==
    call.function /\ call.name # "undefined" /\ call.arguments.kind = "string"

\* extractFunctionCallsFromText(content)
extractFunctionCallsFromText(c, t) ==
    LET found == SelectSeq(c.entries, Matched) IN
    [k \in 1..Len(found) |->
        [id |-> SynthesizedId(t, k - 1),
         type |-> "function",
         name |-> found[k].name,
         arguments |-> found[k].arguments]]

\* What extractFunctionCalls() comes to: whether it threw, the tiers it
\* tried, the tier whose result it returned (0: the final return []), and
\* the list.
Extraction(threw, tried, tier, calls) ==
    [threw |-> threw, tried |-> tried, tier |-> tier, calls |-> calls]

\* extractFunctionCalls without the inner try/catch.
extractFunctionCalls_NoInnerCatch(c, t) ==
    LET parsed == parse(c)
        first == decode(c.entries, t)
    IN IF parsed.json \in {"object", "scalar"} /\ parsed.tool_calls # "array"
       THEN Extraction(FALSE, <<1>>, 0, <<>>)
       ELSE IF parsed.json = "object" /\ ~first.threw
       THEN Extraction(FALSE, <<1>>, 1, first.calls)
       ELSE IF toolCallsMatch(c) = "none"
       THEN Extraction(FALSE, <<1, 2>>, 0, <<>>)
       ELSE IF toolCallsMatch(c) = "array" /\ ~first.threw
       THEN Extraction(FALSE, <<1, 2>>, 2, first.calls)
       ELSE Extraction(TRUE, <<1, 2>>, 0, <<>>)

\* extractFunctionCalls(content) at time t.  The outer catch takes what
\* JSON.parse and the mapping throw (also parsed.tool_calls of null); the
\* inner catch takes what the parse and the mapping of the capture throw;
\* only the inner catch calls extractFunctionCallsFromText().
extractFunctionCalls(c, t) ==
    LET parsed == parse(c)
        first == decode(c.entries, t)
    IN IF parsed.json \in {"object", "scalar"} /\ parsed.tool_calls # "array"
       THEN Extraction(FALSE, <<1>>, 0, <<>>)
       ELSE IF parsed.json = "object" /\ ~first.threw
       THEN Extraction(FALSE, <<1>>, 1, first.calls)
       ELSE IF toolCallsMatch(c) = "none"
       THEN Extraction(FALSE, <<1, 2>>, 0, <<>>)
       ELSE IF toolCallsMatch(c) = "array" /\ ~first.threw
       THEN Extraction(FALSE, <<1, 2>>, 2, first.calls)
       ELSE Extraction(FALSE, <<1, 2, 3>>, 3, extractFunctionCallsFromText(c, t))

\* JSON.stringify({tool_calls: calls}): a field that is undefined is left
\* out.
Serialize(calls) ==
    [shape |-> "clean",
     entries |-> [i \in 1..Len(calls) |->
                    [id |-> calls[i].id,
                     function |-> TRUE,
                     name |-> calls[i].name,
                     arguments |-> IF calls[i].arguments.kind = "undefined"
                                   THEN NoArguments ELSE calls[i].arguments]]]

InitExtract ==
    /\ NoGateway
    /\ NoService
    /\ tools = [isArray |-> TRUE, items |-> <<>>]
    /\ validation = <<>>
    /\ content \in Replies
    /\ extracted = <<>>
    /\ reextracted = <<>>

\* extractFunctionCalls(content) is called on the reply.
Extract ==
    /\ extracted = <<>>
    /\ extracted' = <<extractFunctionCalls(content, now)>>
    /\ UNCHANGED <<lvars, svars, uvars, ovars, tools, validation, content, reextracted>>

\* extractFunctionCalls() is called on the JSON of {tool_calls: result}.
Reextract ==
    /\ extracted # <<>>
    /\ ~extracted[1].threw
    /\ reextracted = <<>>
    /\ reextracted' = <<extractFunctionCalls(Serialize(extracted[1].calls), now)>>
    /\ UNCHANGED <<lvars, svars, uvars, ovars, tools, validation, content, extracted>>

Extracting ==
    \/ Extract
    \/ Reextract
    \/ \E d \in ClockOffsets : Tick(StartTime + d)

NextExtract == Extracting

SpecExtract == InitExtract /\ [][NextExtract]_vars

-----------------------------------------------------------------------------
(* OpenAIService: validateRequest and the usage of createChatCompletion *)

\* request.model || "mistralai/Mistral-Small-24B-Instruct-2501"
DEFAULT_MODEL == "mistralai/Mistral-Small-24B-Instruct-2501"

\* The lengths of the strings looked at (String.prototype.length).
CharCounts == {0, 1, 3, 4, 5}

\* message.content: absent, a number, or a string of some length.
NoContent == [kind |-> "absent", length |-> 0]
Contents ==
    {NoContent, [kind |-> "number", length |-> 0]}
    \cup [kind : {"string"}, length : CharCounts]

\* The roles validateRequest() lets through.
ValidRoles == {"system", "user", "assistant"}

MessageKinds == [role : ValidRoles \cup {"tool", "absent"}, content : Contents]

\* Inbound request bodies: messages is absent, not an array, or a list of up
\* to MaxMessages messages; model and stream are given or not.
Requests ==
    [messages : [kind : {"absent", "notarray"}, items : {<<>>}]
                \cup [kind : {"array"},
                      items : UNION {[1..n -> MessageKinds] : n \in 0..MaxMessages}],
     model : {"absent", "gpt-4o-mini"},
     stream : {"absent", "true"}]

\* What validateRequest() comes to: the request it returns, or the message
\* of the Error it throws.
Accepted(value) == [ok |-> TRUE, error |-> "", value |-> <<value>>]
Rejected(error) == [ok |-> FALSE, error |-> error, value |-> <<>>]

RECURSIVE messageError(_, _)
\* The for loop over request.messages from position i: the first throw.
messageError(items, i) ==
    IF i > Len(items) THEN ""
    ELSE IF items[i].role \notin ValidRoles THEN "role"
    ELSE IF items[i].content.kind # "string" \/ items[i].content.length = 0 THEN "content"
    ELSE messageError(items, i + 1)

RECURSIVE roleError(_, _)
roleError(items, i) ==
    IF i > Len(items) THEN ""
    ELSE IF items[i].role \notin ValidRoles THEN "role"
    ELSE roleError(items, i + 1)

\* validateRequest that does not look at the contents.
validateRequest_NoContentCheck(r) ==
    IF r.messages.kind # "array" THEN Rejected("messages_required")
    ELSE IF r.messages.items = <<>> THEN Rejected("messages_empty")
    ELSE IF roleError(r.messages.items, 1) # ""
    THEN Rejected(roleError(r.messages.items, 1))
    ELSE Accepted([model |-> IF r.model = "absent" THEN DEFAULT_MODEL ELSE r.model,
                   messages |-> r.messages.items,
                   stream |-> r.stream = "true"])

\* validateRequest(request)
validateRequest(r) ==
    IF r.messages.kind # "array" THEN Rejected("messages_required")
    ELSE IF r.messages.items = <<>> THEN Rejected("messages_empty")
    ELSE IF messageError(r.messages.items, 1) # ""
    THEN Rejected(messageError(r.messages.items, 1))
    ELSE Accepted([model |-> IF r.model = "absent" THEN DEFAULT_MODEL ELSE r.model,
                   messages |-> r.messages.items,
                   stream |-> r.stream = "true"])

\* estimateTokens that rounds down.
estimateTokens_Floor(length) == length \div 4

\* estimateTokens(text): Math.ceil(text.length / 4)
estimateTokens(length) == (length + 3) \div 4

RECURSIVE joinedLength(_)
\* The length of messages.map((m) => m.content).join(" ").
joinedLength(items) ==
    IF items = <<>> THEN 0
    ELSE IF Len(items) = 1 THEN items[1].content.length
    ELSE items[1].content.length + 1 + joinedLength(Tail(items))

\* The usage createChatCompletion() reports for a reply of `length`
\* characters (kept with that length).
completionUsage(items, length) ==
    LET promptTokens == estimateTokens(joinedLength(items))
        completionTokens == estimateTokens(length)
    IN [content |-> length,
        prompt_tokens |-> promptTokens,
        completion_tokens |-> completionTokens,
        total_tokens |-> promptTokens + completionTokens]

InitService ==
    /\ NoGateway
    /\ NoTools
    /\ request \in Requests
    /\ accepted = <<>>
    /\ usage = <<>>

\* validateRequest(request) is called and returns or throws.
ValidateRequest ==
    /\ accepted = <<>>
    /\ accepted' = <<validateRequest(request)>>
    /\ UNCHANGED <<lvars, svars, uvars, tvars, request, usage>>

\* createChatCompletion() of the validated request returns, the reply being
\* `length` characters long.
CreateChatCompletion(length) ==
    /\ accepted # <<>>
    /\ accepted[1].ok
    /\ usage = <<>>
    /\ usage' = <<completionUsage(accepted[1].value[1].messages, length)>>
    /\ UNCHANGED <<lvars, svars, uvars, tvars, request, accepted>>

Service ==
    \/ ValidateRequest
    \/ \E length \in CharCounts : CreateChatCompletion(length)

NextService == Service

SpecService == InitService /\ [][NextService]_vars

-----------------------------------------------------------------------------
(* Session credentials *)

\* The chat POSTs of the running gateway, as positions of posts.
OwnPosts == {i \in 1..Len(posts) : posts[i][1] \in Procs}

\* The fields of the in-memory limiter state and of the shared record.
InfoFields == {"requestTimestamps", "lastRequestTime", "isLimited", "retryAfter"}
\* (fmt is the format the file content is in)
StoreFields == InfoFields \cup {"lastUpdated", "processId", "fmt"}

\* C21: each chat POST carries the credential of a handshake made earlier in
\* the same request, no two chat POSTs carry the same credential, and neither
\* the instance state nor the shared record holds a credential, also while
\* two requests of one process interleave.
C21_CredentialFreshAndUsedOnce ==
    /\ [](\A i, j \in OwnPosts : posts[i][3] = posts[j][3] => i = j)
    /\ [](\A p \in Procs : DOMAIN info[p] = InfoFields)
    /\ [](store # <<>> => DOMAIN store[1] \subseteq StoreFields)
    /\ [][posts' # posts =>
            LET p == Last(posts')[1] IN
            /\ pc[p] = "ready"
            /\ Last(trace[p]) = "handshake"
            /\ vqdResponse[p] # <<>>
            /\ Negotiate(vqdResponse[p][1]) = "ok"
            /\ Last(posts')[3] = vqdResponse[p][2]
            /\ vqdResponse'[p] = <<>>]_vars

\* Two requests of the one process are under way at once, each has made its
\* handshake and its POST, and the two POSTs carry different credentials.
C21_Witness ==
    /\ owner = OneProcess
    /\ \A p \in Procs : pc[p] = "awaiting"
    /\ \E i, j \in OwnPosts :
           /\ posts[i][1] # posts[j][1]
           /\ posts[i][3] # posts[j][3]

-----------------------------------------------------------------------------
(* The sliding window *)

RECURSIVE IsSubsequence(_, _)
\* a is b with some elements left out, the rest in b's order.
IsSubsequence(a, b) ==
    IF a = <<>> THEN TRUE
    ELSE IF b = <<>> THEN FALSE
    ELSE IF Head(a) = Head(b) THEN IsSubsequence(Tail(a), Tail(b))
    ELSE IsSubsequence(a, Tail(b))

Occurrences(ts, x) == Cardinality({i \in 1..Len(ts) : ts[i] = x})

\* new is old without the timestamps older than maxAge at t: each of those
\* is gone, each other is there as often as before, in the order of before.
PrunedTo(old, new, t, maxAge) ==
    /\ IsSubsequence(new, old)
    /\ \A x \in Range(old) :
          Occurrences(new, x) = IF t - x > maxAge THEN 0 ELSE Occurrences(old, x)

PruneStep(p) == pc[p] = "idle" /\ pc'[p] = "pruned"

\* C22 as stated: pruning removes exactly the timestamps whose age is above
\* 60,000 ms; a timestamp of age exactly 60,000 ms is kept; order is kept.
C22_PruneKeepsWindowAge ==
    [][\A p \in Procs : PruneStep(p) =>
          PrunedTo(info[p].requestTimestamps, info'[p].requestTimestamps, now,
                   WINDOW_SIZE_MS)]_vars

\* C22, amended: pruning removes exactly the timestamps whose age is 60,000 ms
\* or more, a timestamp of age exactly 60,000 ms included, and keeps the
\* others in their order.
C22_PruneExact ==
    [][\A p \in Procs : PruneStep(p) =>
          PrunedTo(info[p].requestTimestamps, info'[p].requestTimestamps, now,
                   WINDOW_SIZE_MS - 1)]_vars

\* A window whose last timestamp was pushed 59,999 ms before StartTime was
\* pruned one millisecond after StartTime, when that timestamp was exactly
\* 60,000 ms old: nothing is left of it.
C22_Witness ==
    /\ pc["p1"] = "pruned"
    /\ now = StartTime + 1
    /\ info["p1"].lastRequestTime = now - WINDOW_SIZE_MS
    /\ info["p1"].requestTimestamps = <<>>

\* Every timestamp of ts lies in the trailing window at t.
InWindow(ts, t) == \A x \in Range(ts) : t - WINDOW_SIZE_MS < x /\ x <= t

AdmitStep(p) == pc[p] = "idle" /\ pc'[p] \in {"sleeping", "negotiate"}

StatusStep(p) == info'[owner[p]] # info[owner[p]] /\ pc' = pc

\* C23: a record a gateway process writes to the store holds, when written,
\* only timestamps t with now - 60,000 < t <= now; so does the memory after
\* admit() and after getRateLimitStatus() have read.
C23_WindowInvariant ==
    /\ [][(store' # store /\ store' # <<>>) =>
            /\ store'[1].processId \in Procs
            /\ InWindow(store'[1].requestTimestamps, now)]_vars
    /\ [][\A p \in Procs :
            (AdmitStep(p) \/ StatusStep(p)) => InWindow(info'[owner[p]].requestTimestamps, now)]_vars

\* A request was admitted with the window of a previous run in memory, the
\* handshake took more than five minutes, and the record written with the
\* POST holds the POST's timestamp alone.
C23_Witness ==
    \E p \in Procs :
        /\ pc[p] = "awaiting"
        /\ lastWait[p].count >= PriorCount
        /\ now - lastWait[p].at > STALE_AFTER_MS
        /\ store # <<>>
        /\ store[1].processId = p
        /\ store[1].lastUpdated = now
        /\ store[1].requestTimestamps = <<now>>

-----------------------------------------------------------------------------
(* RateLimitStore: read and write *)

\* The instants a read of the file st is looked at: now, the instant of the
\* last update, five minutes after it, and one millisecond later.
ReadTimes(st) ==
    {now} \cup (IF st = <<>> THEN {}
                ELSE {st[1].lastUpdated + d : d \in {0, STALE_AFTER_MS, STALE_AFTER_MS + 1}})

\* C24: read() gives null or the record as stored; null when there is no
\* file content, when it does not parse, and when lastUpdated is more than
\* five minutes back; a write stamps the writer's identity and the time of
\* writing, so what a process wrote is read up to five minutes later and
\* not after.
C24_ReadNeverFailsWriteStamps ==
    /\ [](\A t \in ReadTimes(store) :
            /\ StoreRead(store, t) \in {<<>>, store}
            /\ StoreRead(store, t) = <<>> <=>
                   \/ store = <<>>
                   \/ store[1].fmt = "corrupt"
                   \/ t - store[1].lastUpdated > STALE_AFTER_MS)
    /\ [][\A p \in Procs : RecordStep(p) =>
            /\ store' # <<>>
            /\ store'[1].processId = owner[p]
            /\ store'[1].lastUpdated = now
            /\ StoreRead(store', now + STALE_AFTER_MS) = store'
            /\ StoreRead(store', now + STALE_AFTER_MS + 1) = <<>>]_vars

\* What a running process wrote is more than five minutes old: read() gives
\* null now, and gave the record at five minutes.
C24_Witness ==
    /\ store # <<>>
    /\ store[1].processId \in Procs
    /\ now - store[1].lastUpdated > STALE_AFTER_MS
    /\ StoreRead(store, now) = <<>>
    /\ StoreRead(store, store[1].lastUpdated + STALE_AFTER_MS) = store

UpdateWriteStep(p) == current[p] # <<>> /\ current'[p] = <<>>

\* C25: update() is atomic: what it writes is the updater's result on the
\* record the file holds at the write, one request more than that record, so
\* no write made since its read is overwritten and no update is lost.
C25_UpdateAtomic ==
    [][\A p \in Procs : UpdateWriteStep(p) =>
          LET held == StoreRead(store, now) IN
          held # <<>> =>
              Len(store'[1].requestTimestamps) = Len(held[1].requestTimestamps) + 1]_vars

-----------------------------------------------------------------------------
(* Tool definitions *)

ErrorsAt(i) == {validation[1].errors[k][2] :
                   k \in {k \in 1..Len(validation[1].errors) : validation[1].errors[k][1] = i}}

\* C26: after validateTools, every tool whose function.name is absent, empty
\* or not a string has an error under its index; a wrong type and a
\* non-object parameters.type are reported under the same index as well;
\* this is so for every tool of the list whatever the tools before it; and
\* valid is TRUE exactly when there is no error.
C26_ErrorsCollected ==
    (validation # <<>>) =>
        /\ validation[1].valid <=> validation[1].errors = <<>>
        /\ tools.isArray =>
              \A i \in 1..Len(tools.items) :
                  LET tool == tools.items[i] IN
                  /\ (~tool.function \/ tool.name # "ok") => ErrorsAt(i - 1) # {}
                  /\ tool.type # "function" => "type" \in ErrorsAt(i - 1)
                  /\ (tool.function /\ tool.parameters = "other") =>
                         "parameters" \in ErrorsAt(i - 1)
                  /\ (tool.function /\ tool.name # "ok") => "name" \in ErrorsAt(i - 1)

\* Two tools were validated: the first has no type, a numeric name and
\* parameters that are not an object schema, the second an empty name; the
\* first has three errors, the second one.
C26_Witness ==
    /\ validation # <<>>
    /\ tools.isArray /\ Len(tools.items) = 2
    /\ tools.items[1] = [type |-> "absent", function |-> TRUE, name |-> "number",
                          parameters |-> "other"]
    /\ tools.items[2] = [type |-> "function", function |-> TRUE, name |-> "empty",
                          parameters |-> "object"]
    /\ ErrorsAt(0) = {"type", "name", "parameters"}
    /\ ErrorsAt(1) = {"name"}
    /\ ~validation[1].valid

-----------------------------------------------------------------------------
(* Tool calls *)

\* The reply is one tier 1 accepts: a JSON object whose tool_calls is an
\* array of entries that have a function object.
Tier1Accepts(c) ==
    /\ c.shape = "clean"
    /\ \A i \in 1..Len(c.entries) : c.entries[i].function

\* The ToolCall made of the entry at position i: its id or a made-up one
\* with the index, its name, its arguments as a string (or undefined when
\* there are none).
CallOfEntry(call, entry, i) ==
    /\ IF entry.id.src = "absent"
       THEN call.id.src = "call" /\ call.id.index = i - 1
       ELSE call.id = entry.id
    /\ call.name = entry.name
    /\ call.arguments.text = entry.arguments.text
    /\ call.arguments.kind = IF entry.arguments.kind = "absent" THEN "undefined" ELSE "string"

\* C27: on a reply tier 1 accepts the result is tier 1's, one ToolCall per
\* entry in the order of the entries, and extracting again from
\* {tool_calls: result} is again tier 1's and gives the same list.
C27_IdempotentOnCleanInput ==
    (extracted # <<>> /\ Tier1Accepts(content)) =>
        /\ extracted[1].tried = <<1>>
        /\ extracted[1].tier = 1
        /\ Len(extracted[1].calls) = Len(content.entries)
        /\ \A i \in 1..Len(content.entries) :
              CallOfEntry(extracted[1].calls[i], content.entries[i], i)
        /\ reextracted # <<>> =>
              /\ reextracted[1].tried = <<1>>
              /\ reextracted[1].tier = 1
              /\ reextracted[1].calls = extracted[1].calls

\* A clean reply of two entries, one with its own id, one without an id and
\* with an object for arguments, was extracted, and extracted again at a
\* later time: the made-up id is the one of the first extraction.
C27_Witness ==
    /\ extracted # <<>> /\ reextracted # <<>>
    /\ Tier1Accepts(content)
    /\ Len(content.entries) = 2
    /\ content.entries[1].id = OwnId
    /\ content.entries[2].id = NoId
    /\ content.entries[2].arguments.kind = "object"
    /\ extracted[1].calls[2].id = SynthesizedId(StartTime, 1)
    /\ now > StartTime
    /\ reextracted[1].calls = extracted[1].calls

\* The reply has no tool-call section any tier can parse: prose; JSON
\* without a tool_calls array; or a reply tier 1 does not accept whose
\* tool_calls span does not parse or has an entry without a function object,
\* and whose text has no function fragment.
NothingParsable(c) ==
    \/ c.shape \in {"plain", "json", "notarray", "null", "scalar"}
    \/ /\ ~Tier1Accepts(c)
       /\ \/ toolCallsMatch(c) = "malformed"
          \/ \E i \in 1..Len(c.entries) : ~c.entries[i].function
       /\ \A i \in 1..Len(c.entries) : ~Matched(c.entries[i])

\* C28: extraction returns a list and throws nothing, whatever the reply;
\* the list is empty when the reply has no parsable tool-call section.
C28_ExtractionNeverFails ==
    (extracted # <<>>) =>
        /\ ~extracted[1].threw
        /\ NothingParsable(content) => extracted[1].calls = <<>>
        /\ reextracted # <<>> => ~reextracted[1].threw

\* A reply whose tool_calls span has two entries without a function object:
\* the whole reply does not parse, the mapping of the span throws, the scan
\* for fragments finds nothing, the result is the empty list.
C28_Witness ==
    /\ extracted # <<>>
    /\ content.shape = "wrapped"
    /\ Len(content.entries) = 2
    /\ \A i \in 1..2 : ~content.entries[i].function
    /\ extracted[1].tried = <<1, 2, 3>>
    /\ extracted[1].calls = <<>>
    /\ ~extracted[1].threw

\* C29: the tiers are tried in order and the first that succeeds wins: tier
\* 2 only when the whole reply does not parse as JSON; tier 3 whenever the
\* reply does not parse and tier 2 gave no decoded array, also when there is
\* no tool_calls span; the empty list only when no such tier finds a call.
C29_TiersInOrder ==
    (extracted # <<>>) =>
        LET r == extracted[1] IN
        /\ r.tried \in {<<1>>, <<1, 2>>, <<1, 2, 3>>}
        /\ r.tier # 0 => r.tier = Last(r.tried)
        /\ Len(r.tried) >= 2 => parse(content).json = "invalid"
        /\ (parse(content).json = "invalid" /\ r.tier # 2) => Len(r.tried) = 3
        /\ (parse(content).json = "invalid" /\ r.calls = <<>>) =>
              extractFunctionCallsFromText(content, now) = <<>>

\* C30: every ToolCall returned has a non-empty id, the entry's own or one
\* made of the time and the index, type "function", and arguments that are
\* a string.
C30_ToolCallsWellFormed ==
    (extracted # <<>>) =>
        \A i \in 1..Len(extracted[1].calls) :
            LET call == extracted[1].calls[i] IN
            /\ call.id = OwnId \/ (call.id.src = "call" /\ call.id.time > 0)
            /\ call.type = "function"
            /\ call.arguments.kind = "string"

-----------------------------------------------------------------------------
(* Inbound requests *)

\* The request is one the claim says is refused.
Malformed(r) ==
    \/ r.messages.kind # "array"
    \/ r.messages.items = <<>>
    \/ \E i \in 1..Len(r.messages.items) :
          \/ r.messages.items[i].role \notin {"system", "user", "assistant"}
          \/ r.messages.items[i].content.kind # "string"
          \/ r.messages.items[i].content.length = 0

RECURSIVE ContentChars(_)
\* The characters of the contents of the messages, all together.
ContentChars(items) ==
    IF items = <<>> THEN 0 ELSE items[1].content.length + ContentChars(Tail(items))

\* k is the ceiling of n / 4.
IsCeilOfQuarter(k, n) == 4 * k >= n /\ 4 * (k - 1) < n

\* C32 as stated: prompt_tokens is ceil(P/4) with P the number of characters
\* of the message contents, completion_tokens is ceil(C/4) with C the number
\* of characters of the reply, total_tokens is their sum.
C32_UsageOfContentChars ==
    (usage # <<>>) =>
        LET u == usage[1]
            P == ContentChars(accepted[1].value[1].messages)
        IN /\ IsCeilOfQuarter(u.prompt_tokens, P)
           /\ IsCeilOfQuarter(u.completion_tokens, u.content)
           /\ u.total_tokens = u.prompt_tokens + u.completion_tokens

\* C32, amended: prompt_tokens is ceil(P/4) with P the length of the message
\* contents joined by single spaces, that is their characters plus one per
\* message after the first; completion_tokens is ceil(C/4); total_tokens is
\* their sum.
C32_UsageOfJoinedContents ==
    (usage # <<>>) =>
        LET u == usage[1]
            items == accepted[1].value[1].messages
            P == ContentChars(items) + Len(items) - 1
        IN /\ IsCeilOfQuarter(u.prompt_tokens, P)
           /\ IsCeilOfQuarter(u.completion_tokens, u.content)
           /\ u.total_tokens = u.prompt_tokens + u.completion_tokens

\* Two messages of 1 and 3 characters were answered with 5 characters: the
\* prompt text is 5 characters long, 2 tokens, where the contents alone are
\* 4 characters, 1 token; the reply is 2 tokens, the total 4.
C32_Witness ==
    /\ usage # <<>>
    /\ Len(request.messages.items) = 2
    /\ request.messages.items[1].content.length = 1
    /\ request.messages.items[2].content.length = 3
    /\ usage[1].content = 5
    /\ usage[1].prompt_tokens = 2
    /\ usage[1].completion_tokens = 2
    /\ usage[1].total_tokens = 4

-----------------------------------------------------------------------------
(* The limiter of one process *)

\* The recorded attempts no older than the window, as positions of posts.
RecentPosts == {i \in 1..Len(posts) : now - posts[i][2] <= WINDOW_SIZE_MS}

\* C33: with one process handling its requests one at a time and sleeping
\* for the waits it is given, at no instant are more than 20 recorded
\* attempts within the trailing 60,000 ms.
C33_SingleProcessCap == Cardinality(RecentPosts) <= MAX_REQUESTS_PER_MINUTE

\* The process found 20 attempts in the window, slept until the oldest had
\* left it, and recorded its own: 20 attempts are in the window again.
C33_Witness ==
    /\ pc["p1"] = "awaiting"
    /\ lastWait["p1"].shouldWait
    /\ lastWait["p1"].count = MAX_REQUESTS_PER_MINUTE
    /\ Last(posts)[1] = "p1"
    /\ Cardinality(RecentPosts) = MAX_REQUESTS_PER_MINUTE

\* The attempts the running process recorded at t, as positions of posts.
OwnPostsAt(t) == {i \in OwnPosts : posts[i][2] = t}

-----------------------------------------------------------------------------
(* Frame of a failed negotiation *)

NegotiationFailures == {"vqd_status", "missing_headers", "undecodable", "invalid_hash_structure"}

\* C35: a request that fails in negotiation has recorded nothing: from its
\* admission to its failure no timestamp is appended, lastRequestTime is not
\* set, the store is not written and no chat POST is issued.
C35_FailedNegotiationLeavesNoTrace ==
    /\ [](\A p \in Procs :
            (pc[p] = "done" /\ outcome[p].how \in NegotiationFailures) =>
                /\ \A i \in 1..Len(trace[p]) : trace[p][i] \notin {"record", "post"}
                /\ response[p] = <<>>)
    /\ [][\A p \in Procs :
            (pc[p] \in {"sleeping", "negotiate"} /\ pc'[p] \in {"sleeping", "negotiate", "done"}) =>
                /\ info'[owner[p]] = info[owner[p]]
                /\ store' = store
                /\ posts' = posts]_vars

\* The second request of the process failed at the handshake for a missing
\* header: the store and the memory are as the first request's record left
\* them, and one POST was made in all.
C35_Witness ==
    /\ pc["p1"] = "done"
    /\ outcome["p1"].how = "missing_headers"
    /\ started = 2
    /\ posts # <<>>
    /\ info["p1"].requestTimestamps # <<>>
    /\ Cardinality(OwnPosts) = 1
    /\ store # <<>>
    /\ store[1].processId = "p1"
    /\ store[1].lastUpdated = Last(posts)[2]
    /\ now > Last(posts)[2]
    /\ info["p1"].lastRequestTime = Last(posts)[2]
    /\ Last(info["p1"].requestTimestamps) = Last(posts)[2]

-----------------------------------------------------------------------------
(* Order inside a timestamp list *)

IsNonDecreasing(ts) == \A i \in 1..Len(ts) : \A j \in 1..Len(ts) : i < j => ts[i] <= ts[j]

WellOrdered(r) ==
    /\ IsNonDecreasing(r.requestTimestamps)
    /\ \A i \in 1..Len(r.requestTimestamps) : r.requestTimestamps[i] <= r.lastRequestTime

\* C36: every timestamp list, in a process's memory and in the store, is in
\* non-decreasing order, and lastRequestTime is at least every timestamp of
\* its list.
C36_ListsOrdered ==
    /\ \A p \in Procs : WellOrdered(info[p])
    /\ store # <<>> => WellOrdered(store[1])

\* Two processes have recorded one after the other, at different times, and
\* the store holds both timestamps in order, after one that a prior run left.
C36_Witness ==
    /\ store # <<>>
    /\ Len(store[1].requestTimestamps) >= 3
    /\ \E i \in 1..Len(posts) : \E j \in 1..Len(posts) :
          /\ posts[i][1] = "p1"
          /\ posts[j][1] = "p2"
          /\ posts[i][2] < posts[j][2]
          /\ \E a \in 1..Len(store[1].requestTimestamps) :
             \E b \in 1..Len(store[1].requestTimestamps) :
                /\ a < b
                /\ store[1].requestTimestamps[a] = posts[i][2]
                /\ store[1].requestTimestamps[b] = posts[j][2]
                /\ store[1].requestTimestamps[1] < posts[i][2]

-----------------------------------------------------------------------------
(* The longest wait *)

\* The file after MAX_REQUESTS_PER_MINUTE calls on one instance recorded in
\* the millisecond t: the window is full and its oldest timestamp is t.
FullWindowAt(t) == PriorRun(MAX_REQUESTS_PER_MINUTE, 0, 0, t)

WaitStores == InitStores \cup {FullWindowAt(StartTime)}

InitWait == \E st \in WaitStores : InitLimiter(st, OwnProcess)

\* One process serving requests one after the other, started on any of the
\* files above.
Waiting ==
    \/ Request("p1", HandshakeResponses, UpstreamResponses)
    \/ \E d \in ClockOffsets : Tick(StartTime + d)

NextWait == Waiting

SpecWait == InitWait /\ [][NextWait]_vars

MaxWait == WINDOW_SIZE_MS + WAIT_BUFFER_MS

Count(seq, x) == Cardinality({i \in 1..Len(seq) : seq[i] = x})

\* C37: the wait admit returns is at most 60,100 ms; the request sleeps until
\* that wait is over, once, and its timer takes it to the handshake without
\* looking at the rate limit state again.
C37_WaitBoundedSleepOnce ==
    /\ [](\A p \in Procs :
            /\ lastWait[p].waitTime <= MaxWait
            /\ pc[p] = "sleeping" => wakeAt[p] = lastWait[p].at + lastWait[p].waitTime
            /\ Count(trace[p], "waited") <= 1)
    /\ [][\A p \in Procs :
            (pc[p] = "sleeping" /\ pc'[p] # "sleeping") =>
                /\ pc'[p] = "negotiate"
                /\ now >= wakeAt[p]
                /\ info' = info
                /\ store' = store
                /\ lastWait' = lastWait]_vars

\* The window was full of timestamps of the very millisecond of the
\* admission: the request slept the longest wait and is at the handshake.
C37_Witness ==
    /\ lastWait["p1"].waitTime = MaxWait
    /\ pc["p1"] = "negotiate"
    /\ trace["p1"] = <<"admit", "waited">>
    /\ now >= lastWait["p1"].at + MaxWait

-----------------------------------------------------------------------------
(* Status queries *)

\* SharedRateLimitMonitor.getCurrentStatus(): what it reports of the file st
\* at the time t.  It calls read() and computes; it holds no state.
getCurrentStatus(st, t) ==
    LET stored == StoreRead(st, t) IN
    IF stored = <<>>
    THEN [dataSource |-> "default", isCurrentlyLimited |-> FALSE,
          recommendedWaitTime |-> 0, windowType |-> "none"]
    ELSE [dataSource |-> "shared", isCurrentlyLimited |-> stored[1].isLimited,
          recommendedWaitTime |->
              Max(0, MIN_REQUEST_INTERVAL_MS - (t - stored[1].lastRequestTime)),
          windowType |-> IF stored[1].fmt = "fixed" THEN "fixed" ELSE "sliding"]

ClearStep == store # <<>> /\ store' = <<>> /\ pc' = pc /\ info' = info

\* C38: a status query leaves the store as it is; the store changes only
\* when a request records its attempt, to exactly what that request saved,
\* and when the store is cleared.
C38_StatusReadOnly ==
    [][/\ \A p \in Procs : StatusStep(p) => store' = store
       /\ \A p \in Procs :
             RecordStep(p) =>
                 store' = StoreWrite(RecordInfo(info[owner[p]], now), owner[p], now)
       /\ store' # store => (ClearStep \/ \E p \in Procs : RecordStep(p))]_vars

\* Before any request, two status queries of p1 have loaded the file a prior
\* run left and then pruned the copy to nothing; the file has gone stale,
\* the monitor reports defaults, and the file is still what the prior run
\* wrote.
C38_Witness ==
    /\ started = 0
    /\ store \in InitStores
    /\ store # <<>>
    /\ store[1].requestTimestamps # <<>>
    /\ info["p1"].requestTimestamps = <<>>
    /\ info["p1"].lastRequestTime = store[1].lastRequestTime
    /\ getCurrentStatus(store, now).dataSource = "default"

====
